---- MODULE Spec2Model ----
(***************************************************************************)
(* StockMind behavioural analytics: the persistence layer                  *)
(* (src/python/database.py), the request handlers (src/python/server.py),  *)
(* the scoring engine (src/python/scoring_engine.py) and the challenge     *)
(* catalog (src/python/challenges.py) as a state machine.                  *)
(*                                                                         *)
(* Conventions.                                                            *)
(*  - Time is the integer `clock`, counted in ticks, TicksPerDay ticks to  *)
(*    the UTC day: every datetime.utcnow() of a handler reads `clock`.     *)
(*    The code compares ISO timestamps as strings; for timestamps written  *)
(*    by datetime.isoformat() that order is the chronological order, so    *)
(*    the model compares tick numbers.  An id built from a millisecond     *)
(*    timestamp is built from the tick: two ids made in the same tick are  *)
(*    the ids made in the same millisecond.                                *)
(*  - Python floats are exact rationals [n, d] (d > 0, lowest terms);      *)
(*    round(x, 1) is rounding to the nearest tenth, ties to even, and a    *)
(*    rounded score is kept as an integer number of tenths (0 .. 1000).    *)
(*  - An Optional value is a sequence: << >> for None, <<v>> for v.        *)
(***************************************************************************)
EXTENDS Integers, Sequences, FiniteSets, TLC

(***************************************************************************)
(* Bounds of the model.                                                    *)
(***************************************************************************)
MaxFacts == 2         \* rows of transactions + trade_checklists + mentor_triggers
MaxAggDay == 2        \* last day of the aggregator specification
MaxTriggers == 1      \* rows of mentor_triggers, badge specification
MaxBadgeDay == 21     \* last day of the badge specification
MaxChTx == 1          \* rows of table transactions, challenge specifications
MaxChDay == 30        \* last day of the challenge specifications
MaxChRows == 11      \* rows of table challenges

(***************************************************************************)
(* Program constants.                                                      *)
(***************************************************************************)
DEFAULT_BALANCE == 100000

VARIABLES
    clock,            \* datetime.utcnow(), in ticks (TicksPerDay to the day)
    balance,          \* portfolio.balance (row id = 1)
    holdings,         \* table holdings: (symbol, type) -> [quantity, averagePrice]
    transactions,     \* table transactions, in insertion (= timestamp) order
    checklists,       \* table trade_checklists, in insertion order
    mentor_triggers,  \* table mentor_triggers, in insertion order
    sentiment_cache,  \* table sentiment_cache: set of rows
    daily_scores,     \* table daily_scores: set of rows
    badges,           \* table badges: set of rows
    monthly_reports,  \* table monthly_reports, in insertion order
    challenges,       \* table challenges: set of rows
    procs,            \* handlers in flight (interleaved specifications)
    lastOp            \* the last handler that wrote the score, badge or challenge
                      \* tables and how it ended, or "facts" where a fact was
                      \* recorded after it

vars == <<clock, balance, holdings, transactions, checklists, mentor_triggers,
          sentiment_cache, daily_scores, badges, monthly_reports, challenges,
          procs, lastOp>>

factVars == <<balance, holdings, transactions, checklists, mentor_triggers,
              sentiment_cache>>
scoreVars == <<daily_scores, badges, monthly_reports>>

(***************************************************************************)
(* Exact rational arithmetic standing for Python's float arithmetic.       *)
(***************************************************************************)
Abs(x) == IF x < 0 THEN 0 - x ELSE x

RECURSIVE GCD(_, _)
GCD(a, b) == IF b = 0 THEN a ELSE GCD(b, a % b)

Rat(n, d) ==
    LET g == GCD(Abs(n), Abs(d))
        s == IF d < 0 THEN 0 - 1 ELSE 1
    IN  [n |-> (s * n) \div g, d |-> (s * d) \div g]

RInt(i) == [n |-> i, d |-> 1]
RAdd(x, y) ==
    LET g == GCD(x.d, y.d)
    IN  Rat(x.n * (y.d \div g) + y.n * (x.d \div g), (x.d \div g) * y.d)
RSub(x, y) == RAdd(x, [n |-> 0 - y.n, d |-> y.d])
RMul(x, y) ==
    LET g1 == GCD(Abs(x.n), y.d)
        g2 == GCD(Abs(y.n), x.d)
    IN  [n |-> (x.n \div g1) * (y.n \div g2), d |-> (x.d \div g2) * (y.d \div g1)]
RDiv(x, y) ==
    RMul(x, IF y.n < 0 THEN [n |-> 0 - y.d, d |-> 0 - y.n] ELSE [n |-> y.d, d |-> y.n])
RLt(x, y) == x.n * y.d < y.n * x.d
RLe(x, y) == x.n * y.d <= y.n * x.d
RMax(x, y) == IF RLt(x, y) THEN y ELSE x
RMin(x, y) == IF RLt(y, x) THEN y ELSE x

\* round(x, 1) as a number of tenths: nearest, ties to even.
RoundTenths(x) ==
    LET m == 10 * (x.n % x.d)
        q == 10 * (x.n \div x.d) + (m \div x.d)
        r == m % x.d
    IN  IF 2 * r < x.d THEN q
        ELSE IF 2 * r > x.d THEN q + 1
        ELSE IF q % 2 = 0 THEN q ELSE q + 1

\* Sums and filters of sequences, by halving the index range.
RECURSIVE SumRange(_, _, _)
SumRange(s, lo, hi) ==
    IF lo > hi THEN 0
    ELSE IF lo = hi THEN s[lo]
    ELSE SumRange(s, lo, (lo + hi) \div 2) + SumRange(s, ((lo + hi) \div 2) + 1, hi)

SeqSum(s) == SumRange(s, 1, Len(s))

RECURSIVE RSumRange(_, _, _)
RSumRange(s, lo, hi) ==
    IF lo > hi THEN RInt(0)
    ELSE IF lo = hi THEN s[lo]
    ELSE RAdd(RSumRange(s, lo, (lo + hi) \div 2), RSumRange(s, ((lo + hi) \div 2) + 1, hi))

RSeqSum(s) == RSumRange(s, 1, Len(s))

RECURSIVE SelectRange(_, _, _, _)
SelectRange(s, keep, lo, hi) ==
    IF lo > hi THEN << >>
    ELSE IF lo = hi THEN (IF s[lo] \in keep THEN <<s[lo]>> ELSE << >>)
    ELSE SelectRange(s, keep, lo, (lo + hi) \div 2)
            \o SelectRange(s, keep, ((lo + hi) \div 2) + 1, hi)

\* The subsequence of the elements of s that are in keep.
SelectSeqOf(s, keep) == SelectRange(s, keep, 1, Len(s))

Reverse(s) == [i \in 1..Len(s) |-> s[Len(s) + 1 - i]]

Range(s) == {s[i] : i \in DOMAIN s}

RECURSIVE SetToSeq(_)
SetToSeq(S) ==
    IF S = {} THEN << >>
    ELSE LET x == CHOOSE y \in S : TRUE IN <<x>> \o SetToSeq(S \ {x})

(***************************************************************************)
(* Time.                                                                   *)
(***************************************************************************)
\* The instants of one day that the model tells apart.
DayInstants == {0, 1}
TicksPerDay == Cardinality(DayInstants)

Days(n) == n * TicksPerDay          \* timedelta(days=n)
DateOf(t) == t \div TicksPerDay     \* datetime.date(), timestamp[:10]

\* The timestamps that datetime.fromisoformat cannot parse: the empty string
\* and a text such as "n/a".  A timestamp column holds a tick or one of these
\* two codes, which lie below every tick.
EmptyTimestamp == 0 - 1
TextTimestamp == 0 - 2
UnparseableTimestamps == {EmptyTimestamp, TextTimestamp}

\* _parse_timestamp(ts) is not None: "if not ts: return None", and None on
\* ValueError.
Parseable(ts) == ts \notin UnparseableTimestamps

\* The str comparison ts >= cutoff.isoformat(): the empty string sorts before
\* every ISO string, a text that starts with a letter after every one.
IsoStringGe(ts, cutoff) ==
    IF ts = TextTimestamp THEN TRUE
    ELSE IF ts = EmptyTimestamp THEN FALSE
    ELSE ts >= cutoff

\* ts[:10]: the date of an ISO string, the string itself when it is shorter.
DatePrefix(ts) == IF Parseable(ts) THEN DateOf(ts) ELSE ts

(***************************************************************************)
(* Inputs of the requests.                                                 *)
(***************************************************************************)
Assets ==
    { [symbol |-> "AAPL", type |-> "stock"],
      [symbol |-> "MSFT", type |-> "stock"],
      [symbol |-> "BTC", type |-> "crypto"] }
TradeActions == {"buy", "sell"}
Quantities == {1}
Prices == {20000, 50000}
\* The checklist requests: [completedCount, skipped].
ChecklistRequests ==
    { [completedCount |-> 5, skipped |-> FALSE],
      [completedCount |-> 3, skipped |-> FALSE],
      [completedCount |-> 0, skipped |-> TRUE] }

(***************************************************************************)
(* database.py: portfolio, holdings, transactions, trade_checklists.       *)
(***************************************************************************)
\* get_holdings(): the rows of table holdings.
get_holdings == holdings

\* get_transactions(): ORDER BY timestamp DESC, newest first.
get_transactions == Reverse(transactions)

\* get_checklists_raw(days): created_at >= cutoff, ORDER BY created_at DESC.
get_checklists_raw(days, now) ==
    LET cutoff == now - Days(days)
    IN  Reverse(SelectSeqOf(checklists,
                            {c \in Range(checklists) : c.created_at >= cutoff}))

\* The holding of (symbol, type), as next(...) finds it in db_execute_trade.
ExistingHolding(hs, sym, ty) == {h \in hs : h.symbol = sym /\ h.type = ty}

\* upsert_holding: INSERT ... ON CONFLICT(symbol, type) DO UPDATE.
upsert_holding(hs, sym, ty, qty, avg) ==
    (hs \ ExistingHolding(hs, sym, ty))
        \cup {[symbol |-> sym, type |-> ty, quantity |-> qty, averagePrice |-> avg]}

\* delete_holding: DELETE ... WHERE symbol = ? AND type = ?.
delete_holding(hs, sym, ty) == hs \ ExistingHolding(hs, sym, ty)

\* update_holding_quantity: UPDATE ... WHERE symbol = ? AND type = ?.
update_holding_quantity(hs, sym, ty, qty, avg) ==
    {IF h.symbol = sym /\ h.type = ty
        THEN [h EXCEPT !.quantity = qty, !.averagePrice = avg]
        ELSE h : h \in hs}

\* add_transaction: one row appended; the timestamp is utcnow().
add_transaction(txs, sym, ty, action, qty, price, total, now) ==
    Append(txs, [symbol |-> sym, type |-> ty, action |-> action,
                 quantity |-> qty, price |-> price, total |-> total,
                 timestamp |-> now])

(***************************************************************************)
(* server.py: POST /api/db/portfolio/trade, the whole handler.             *)
(***************************************************************************)
TradeRejected_NoOversellCheck(sym, ty, action, qty, price) ==
    LET total == qty * price
        existing == ExistingHolding(holdings, sym, ty)
    IN  \/ qty <= 0
        \/ action = "buy" /\ total > balance
        \/ action = "sell" /\ existing = {}
        \/ action \notin {"buy", "sell"}

TradeRejected(sym, ty, action, qty, price) ==
    LET total == qty * price
        existing == ExistingHolding(holdings, sym, ty)
    IN  \/ qty <= 0
        \/ action = "buy" /\ total > balance
        \/ action = "sell" /\ existing = {}
        \/ action = "sell" /\ existing # {}
             /\ (CHOOSE h \in existing : TRUE).quantity < qty
        \/ action \notin {"buy", "sell"}

db_execute_trade(sym, ty, action, qty, price) ==
    LET total == qty * price
        existing == ExistingHolding(holdings, sym, ty)
        ex == CHOOSE h \in existing : TRUE
    IN  IF TradeRejected(sym, ty, action, qty, price)
        THEN UNCHANGED <<balance, holdings, transactions>>
        ELSE /\ IF action = "buy"
                THEN /\ balance' = balance - total
                     /\ holdings' =
                          IF existing # {}
                          THEN LET new_qty == ex.quantity + qty
                                   new_avg ==
                                       RDiv(RAdd(RMul(RInt(ex.quantity), ex.averagePrice),
                                                 RInt(qty * price)),
                                            RInt(new_qty))
                               IN  upsert_holding(holdings, sym, ty, new_qty, new_avg)
                          ELSE upsert_holding(holdings, sym, ty, qty, RInt(price))
                ELSE /\ balance' = balance + total
                     /\ holdings' =
                          IF ex.quantity = qty
                          THEN delete_holding(holdings, sym, ty)
                          ELSE update_holding_quantity(holdings, sym, ty,
                                   ex.quantity - qty, ex.averagePrice)
             /\ transactions' =
                    add_transaction(transactions, sym, ty, action, qty, price,
                                    total, clock)

\* POST /api/db/checklists: one row appended with the request's values.
db_create_checklist(completedCount, skipped) ==
    checklists' = Append(checklists,
                         [completed_count |-> completedCount,
                          skipped |-> skipped, created_at |-> clock])

(***************************************************************************)
(* challenges.py: the catalog and the seven progress functions.            *)
(***************************************************************************)
CHALLENGE_TEMPLATES ==
    << [challenge_type |-> "diversify_sectors", target_value |-> 3, duration_days |-> 30],
       [challenge_type |-> "cash_reserve", target_value |-> 7, duration_days |-> 30],
       [challenge_type |-> "checklist_streak", target_value |-> 10, duration_days |-> 30],
       [challenge_type |-> "hold_duration", target_value |-> 5, duration_days |-> 30],
       [challenge_type |-> "trade_variety", target_value |-> 2, duration_days |-> 30],
       [challenge_type |-> "neutral_trader", target_value |-> 3, duration_days |-> 30],
       [challenge_type |-> "hype_resistant", target_value |-> 7, duration_days |-> 14] >>

ChallengeTypes == {CHALLENGE_TEMPLATES[i].challenge_type : i \in DOMAIN CHALLENGE_TEMPLATES}

Min(a, b) == IF a < b THEN a ELSE b
Max(a, b) == IF a > b THEN a ELSE b

\* qty * price of one holding; get_holdings() returns no currentPrice, so the
\* price is averagePrice.
PositionValue(h) == RMul(RInt(h.quantity), h.averagePrice)

\* balance + sum of the position values.
TotalValue(hs, bal) ==
    RAdd(RInt(bal), RSeqSum([i \in 1..Cardinality(hs) |-> PositionValue(SetToSeq(hs)[i])]))

compute_diversify_sectors(hs) ==
    RInt(Cardinality({<<h.type, h.symbol>> : h \in hs}))

\* Buys dated on calendar day d.
BuysOnDay(txs, d) ==
    {i \in DOMAIN txs : txs[i].action = "buy" /\ DateOf(txs[i].timestamp) = d}

\* The loop "for day_offset in range(n): if <no buy that day> consecutive += 1
\* else break", from offset k on.
RECURSIVE ConsecutiveNoBuyDays(_, _, _, _)
ConsecutiveNoBuyDays(txs, today, k, n) ==
    IF k >= n THEN 0
    ELSE IF BuysOnDay(txs, today - k) = {}
         THEN 1 + ConsecutiveNoBuyDays(txs, today, k + 1, n)
         ELSE 0

compute_cash_reserve(bal, hs, txs, now) ==
    LET total_value == TotalValue(hs, bal)
        cash_pct == RMul(RDiv(RInt(bal), total_value), RInt(100))
    IN  IF RLe(total_value, RInt(0)) THEN RInt(0)
        ELSE IF RLe(RInt(25), cash_pct)
             THEN RInt(Min(ConsecutiveNoBuyDays(txs, DateOf(now), 0, 30), 7))
             ELSE RInt(0)

\* The newest-first run of full, unskipped checklists.
RECURSIVE FullStreak(_)
FullStreak(cs) ==
    IF cs = << >> THEN 0
    ELSE IF Head(cs).completed_count = 5 /\ ~Head(cs).skipped
         THEN 1 + FullStreak(Tail(cs))
         ELSE 0

\* checklists arrives newest first and sorted(..., reverse=True) keeps it so.
compute_checklist_streak(cs) == RInt(Min(FullStreak(cs), 10))

\* For one holding: (now - earliest buy of its symbol) in days, 0 without a buy.
HeldDays(h, txs, now) ==
    LET buys == {i \in DOMAIN txs : txs[i].symbol = h.symbol /\ txs[i].action = "buy"}
        earliest == CHOOSE t \in {txs[i].timestamp : i \in buys} :
                        \A i \in buys : t <= txs[i].timestamp
    IN  IF buys = {} THEN RInt(0) ELSE Rat(now - earliest, TicksPerDay)

RECURSIVE RMaxOver(_)
RMaxOver(s) == IF s = << >> THEN RInt(0) ELSE RMax(Head(s), RMaxOver(Tail(s)))

compute_hold_duration(hs, txs, now) ==
    LET hseq == SetToSeq(hs)
    IN  RMin(RMaxOver([i \in DOMAIN hseq |-> HeldDays(hseq[i], txs, now)]), RInt(5))

compute_trade_variety(txs) ==
    RInt(Cardinality({txs[i].type : i \in DOMAIN txs}))

\* The handlers are coroutines of the running event loop, where
\* loop.run_until_complete raises RuntimeError: the lookup of each symbol is
\* skipped by "except RuntimeError: pass".
LoopIsRunning == TRUE

compute_neutral_trader(txs, now) ==
    LET thirty_days_ago == now - Days(30)
        recent_buys == {i \in DOMAIN txs : txs[i].action = "buy"
                                             /\ txs[i].timestamp >= thirty_days_ago}
        checked == {txs[i].symbol : i \in recent_buys}
        neutral == {sym \in checked :
                      /\ ~LoopIsRunning
                      /\ \E c \in sentiment_cache :
                            /\ c.symbol = sym /\ ~(now > c.expires_at)
                            /\ c.mood = "neutral"}
    IN  RInt(Min(Cardinality(neutral), 3))

compute_hype_resistant(txs, now) ==
    LET hype_buys == {i \in DOMAIN txs : txs[i].action = "buy"
                                           /\ ~(txs[i].timestamp < now - Days(14))}
    IN  IF hype_buys = {} THEN RInt(7)
        ELSE RInt(Min(ConsecutiveNoBuyDays(
                          SelectSeqOf(txs, {txs[i] : i \in hype_buys}),
                          DateOf(now), 0, 14), 7))

\* PROGRESS_COMPUTERS dispatch; an unknown type gives 0.0.
compute_challenge_progress(challenge_type, hs, bal, txs, cs, now) ==
    CASE challenge_type = "diversify_sectors" -> compute_diversify_sectors(hs)
      [] challenge_type = "cash_reserve" -> compute_cash_reserve(bal, hs, txs, now)
      [] challenge_type = "checklist_streak" -> compute_checklist_streak(cs)
      [] challenge_type = "hold_duration" -> compute_hold_duration(hs, txs, now)
      [] challenge_type = "trade_variety" -> compute_trade_variety(txs)
      [] challenge_type = "neutral_trader" -> compute_neutral_trader(txs, now)
      [] challenge_type = "hype_resistant" -> compute_hype_resistant(txs, now)
      [] OTHER -> RInt(0)

(***************************************************************************)
(* database.py: table challenges.  A row is                                *)
(*   [id, challengeType, targetValue, currentValue, status, startedAt,     *)
(*    expiresAt, completedAt];  id is the PRIMARY KEY.                     *)
(***************************************************************************)
\* f"ch-{challenge_type}-{int(now.timestamp() * 1000)}"
ChallengeId(challenge_type, now) == <<challenge_type, now>>

\* INSERT INTO challenges ...: raises IntegrityError when the id is taken.
add_challenge_raises(rows, id) == \E r \in rows : r.id = id

add_challenge(rows, id, challenge_type, target_value, started_at, expires_at) ==
    rows \cup {[id |-> id, challengeType |-> challenge_type,
                targetValue |-> RInt(target_value), currentValue |-> RInt(0),
                status |-> "active", startedAt |-> started_at,
                expiresAt |-> expires_at, completedAt |-> << >>]}

\* UPDATE challenges SET current_value, status, completed_at WHERE id = ?
update_challenge(rows, id, current_value, status, completed_at) ==
    {IF r.id = id
        THEN [r EXCEPT !.currentValue = current_value, !.status = status,
                       !.completedAt = completed_at]
        ELSE r : r \in rows}

get_active_challenges_AnyStatus(rows) == rows

\* SELECT * FROM challenges WHERE status = 'active'
get_active_challenges(rows) == {r \in rows : r.status = "active"}

(***************************************************************************)
(* server.py: the challenge handlers.                                      *)
(***************************************************************************)
RefreshStatus_ExpiryFirst(progress_val, ch, now) ==
    IF now > ch.expiresAt THEN "expired"
    ELSE IF RLe(ch.targetValue, progress_val) THEN "completed"
    ELSE "active"

\* The if / elif / else of challenges_refresh: the status written for a row.
RefreshStatus(progress_val, ch, now) ==
    IF RLe(ch.targetValue, progress_val) THEN "completed"
    ELSE IF now > ch.expiresAt THEN "expired"
    ELSE "active"

\* One iteration of "for ch in active": the update_challenge call it makes.
RefreshOne(rows, ch, hs, bal, txs, cs, now, at) ==
    LET progress_val == compute_challenge_progress(ch.challengeType, hs, bal, txs, cs, at)
        status == RefreshStatus(progress_val, ch, now)
    IN  update_challenge(rows, ch.id, progress_val, status,
                         IF status = "completed" THEN <<now>> ELSE << >>)

\* "for ch in active: ... await update_challenge(ch["id"], ...)": every row of
\* the snapshot is written once, by its id.
RefreshAll(rows, active, hs, bal, txs, cs, now) ==
    {IF \E ch \in active : ch.id = r.id
        THEN CHOOSE u \in RefreshOne({r}, CHOOSE ch \in active : ch.id = r.id,
                                     hs, bal, txs, cs, now, now) : TRUE
        ELSE r : r \in rows}

\* "if tmpl['challenge_type'] not in active_types" of the re-seeding loop.
MissingFromActive(challenge_type, active_types) == challenge_type \notin active_types

\* The seeding loop over CHALLENGE_TEMPLATES from template k on: the rows it
\* leaves and whether it ran to its end (an IntegrityError ends the handler,
\* the rows inserted before it stay committed).
RECURSIVE SeedTemplates(_, _, _, _)
SeedTemplates(rows, k, active_types, now) ==
    IF k > Len(CHALLENGE_TEMPLATES) THEN [rows |-> rows, ok |-> TRUE]
    ELSE LET tmpl == CHALLENGE_TEMPLATES[k]
             id == ChallengeId(tmpl.challenge_type, now)
         IN  IF ~MissingFromActive(tmpl.challenge_type, active_types)
             THEN SeedTemplates(rows, k + 1, active_types, now)
             ELSE IF add_challenge_raises(rows, id)
             THEN [rows |-> rows, ok |-> FALSE]
             ELSE SeedTemplates(
                      add_challenge(rows, id, tmpl.challenge_type, tmpl.target_value,
                                    now, now + Days(tmpl.duration_days)),
                      k + 1, active_types, now)

ActiveTypesAfterUpdates_Stale(active, updated) == {c.challengeType : c \in active}

\* "remaining = await get_active_challenges()" read after the updates, and
\* "active_types = {c['challengeType'] for c in remaining}".
ActiveTypesAfterUpdates(active, updated) ==
    {c.challengeType : c \in get_active_challenges(updated)}

\* POST /api/challenges/refresh, the whole handler.
challenges_refresh ==
    LET now == clock
        active == get_active_challenges(challenges)
        updated == RefreshAll(challenges, active, get_holdings, balance,
                              get_transactions, get_checklists_raw(30, now), now)
        active_types == ActiveTypesAfterUpdates(active, updated)
        seeded == SeedTemplates(updated, 1, active_types, now)
    IN  /\ Cardinality(seeded.rows) <= MaxChRows
        /\ challenges' = seeded.rows
        /\ lastOp' = IF seeded.ok THEN "refresh" ELSE "refresh_raised"

\* GET /api/challenges, the whole handler: it seeds the catalog when no
\* challenge is active; the progress it computes is returned, not stored.
challenges_get_active ==
    LET now == clock
        active == get_active_challenges(challenges)
        seeded == IF active = {}
                  THEN SeedTemplates(challenges, 1, {}, now)
                  ELSE [rows |-> challenges, ok |-> TRUE]
    IN  /\ Cardinality(seeded.rows) <= MaxChRows
        /\ challenges' = seeded.rows
        /\ lastOp' = IF seeded.ok THEN "read" ELSE "read_raised"

(***************************************************************************)
(* SpecCh: the challenge handlers and trades, one request at a time.       *)
(***************************************************************************)
ChDaySteps == {15}
ChAssets == {a \in Assets : a.symbol \in {"AAPL", "BTC"}}
ChPrices == {50000}

InitStore ==
    /\ clock = 0
    /\ balance = DEFAULT_BALANCE
    /\ holdings = {}
    /\ transactions = << >>
    /\ checklists = << >>
    /\ mentor_triggers = << >>
    /\ sentiment_cache = {}
    /\ daily_scores = {}
    /\ badges = {}
    /\ monthly_reports = << >>
    /\ challenges = {}
    /\ procs = << >>
    /\ lastOp = "init"

\* Time passes within the day.
ChInstant ==
    /\ (clock + 1) % TicksPerDay # 0
    /\ clock' = clock + 1
    /\ UNCHANGED <<factVars, scoreVars, challenges, procs, lastOp>>

\* Time passes to the start of a later day.
ChDays ==
    \E d \in ChDaySteps :
        /\ DateOf(clock) + d <= MaxChDay
        /\ clock' = Days(DateOf(clock) + d)
        /\ UNCHANGED <<factVars, scoreVars, challenges, procs, lastOp>>

ChTrade ==
    \E a \in ChAssets, action \in TradeActions, qty \in Quantities, price \in ChPrices :
        /\ Len(transactions) < MaxChTx
        /\ db_execute_trade(a.symbol, a.type, action, qty, price)
        /\ UNCHANGED <<clock, checklists, mentor_triggers, sentiment_cache,
                       scoreVars, challenges, procs, lastOp>>

ChRefresh ==
    /\ challenges_refresh
    /\ UNCHANGED <<clock, factVars, scoreVars, procs>>

ChRead ==
    /\ challenges_get_active
    /\ UNCHANGED <<clock, factVars, scoreVars, procs>>

NextCh == ChInstant \/ ChDays \/ ChTrade \/ ChRefresh \/ ChRead

SpecCh == InitStore /\ [][NextCh]_vars

(***************************************************************************)
(* Claims about the challenge handlers run one at a time.                  *)
(***************************************************************************)
ActiveOfType(rows, t) == {r \in rows : r.challengeType = t /\ r.status = "active"}
Terminal(r) == r.status \in {"completed", "expired"}

\* C1: after every challenges-refresh that ran to completion (refreshes, reads
\* and trades executed one at a time, from the empty store) there is exactly
\* one challenge with status 'active' for each of the 7 catalog types.
C1_OneActivePerTypeAfterRefresh ==
    lastOp = "refresh" =>
        /\ Cardinality(ChallengeTypes) = 7
        /\ \A t \in ChallengeTypes : Cardinality(ActiveOfType(challenges, t)) = 1

\* A refresh has expired a challenge and seeded its successor.
C1_Witness ==
    /\ lastOp = "refresh"
    /\ \E r \in challenges : \E r2 \in challenges :
          /\ r.status = "expired"
          /\ r2.challengeType = r.challengeType
          /\ r2.status = "active"
          /\ r2.startedAt > r.expiresAt

\* C2: a challenge row that is 'completed' or 'expired' keeps that status in
\* every later step of the handlers (run one at a time): it is never set back
\* to 'active', and never moves between 'completed' and 'expired'.
C2_TerminalStatusKept ==
    [][\A r \in challenges :
          Terminal(r) =>
              \E r2 \in challenges' : r2.id = r.id /\ r2.status = r.status]_vars

\* Two generations of one type are terminal: the refresh that ended the second
\* ran while the first was terminal already.
C2_Witness ==
    \E r \in challenges : \E r2 \in challenges :
        /\ r.id # r2.id
        /\ r.challengeType = r2.challengeType
        /\ Terminal(r) /\ Terminal(r2)
        /\ r2.startedAt > r.startedAt

\* C11: a refresh writes every challenge that was active when it started, with
\* p the progress recomputed from the facts: 'completed' with completed_at the
\* time of the refresh when p >= target (also past expiresAt), otherwise
\* 'expired' when now > expiresAt, otherwise 'active'; current_value becomes p
\* in all three cases.
C11_RefreshWritesStatus ==
    [][(lastOp' \in {"refresh", "refresh_raised"} /\ UNCHANGED <<clock, transactions>>) =>
          \A r \in get_active_challenges(challenges) :
              \E r2 \in challenges' :
                  /\ r2.id = r.id
                  /\ r2.currentValue =
                         compute_challenge_progress(r.challengeType, holdings, balance,
                             get_transactions, get_checklists_raw(30, clock), clock)
                  /\ IF RLe(r.targetValue, r2.currentValue)
                        THEN r2.status = "completed" /\ r2.completedAt = <<clock>>
                        ELSE /\ r2.completedAt = << >>
                             /\ r2.status = IF clock > r.expiresAt THEN "expired"
                                                                   ELSE "active"]_vars

\* Refreshes have completed a challenge after its expiresAt, expired another
\* and kept a third active with its progress stored.
C11_Witness ==
    /\ lastOp = "refresh"
    /\ \E r \in challenges :
          /\ r.status = "completed"
          /\ r.completedAt # << >>
          /\ r.completedAt[1] > r.expiresAt
    /\ \E r2 \in challenges : r2.status = "expired"
    /\ \E r3 \in challenges :
          r3.status = "active" /\ RLt(RInt(0), r3.currentValue)

(***************************************************************************)
(* SpecChConc: two challenge handlers that interleave at their database    *)
(* calls (every "await" of challenges_refresh and challenges_get_active is *)
(* one step), beside whole handlers, trades and time passing in the day.   *)
(* A handler in flight is the record procs[p]:                             *)
(*   pc, op, now, active (the snapshot of get_active_challenges), txs, hs, *)
(*   bal, cs (the fact snapshots), todo (rows still to update),            *)
(*   active_types, k (next template), seeded (types it inserted), raised.  *)
(***************************************************************************)
Procs == {1, 2}

IdleProc == [pc |-> "idle"]

InitChConc ==
    /\ clock = 0
    /\ balance = DEFAULT_BALANCE
    /\ holdings = {}
    /\ transactions = << >>
    /\ checklists = << >>
    /\ mentor_triggers = << >>
    /\ sentiment_cache = {}
    /\ daily_scores = {}
    /\ badges = {}
    /\ monthly_reports = << >>
    /\ challenges = {}
    /\ procs = [p \in Procs |-> IdleProc]
    /\ lastOp = "init"

NewProc(op, pc, now, active, active_types) ==
    [pc |-> pc, op |-> op, now |-> now, active |-> active, txs |-> << >>,
     hs |-> {}, bal |-> 0, cs |-> << >>, todo |-> << >>,
     active_types |-> active_types, k |-> 1, seeded |-> {}, raised |-> FALSE]

\* challenges_refresh: now = utcnow(); active = await get_active_challenges()
PRefreshStart(p) ==
    /\ procs[p].pc = "idle"
    /\ procs' = [procs EXCEPT ![p] =
                    NewProc("refresh", "r_tx", clock, get_active_challenges(challenges), {})]
    /\ UNCHANGED <<clock, factVars, scoreVars, challenges, lastOp>>

\* transactions = await get_transactions()
PRefreshTx(p) ==
    /\ procs[p].pc = "r_tx"
    /\ procs' = [procs EXCEPT ![p].txs = get_transactions, ![p].pc = "r_hold"]
    /\ UNCHANGED <<clock, factVars, scoreVars, challenges, lastOp>>

\* holdings = await get_holdings()
PRefreshHold(p) ==
    /\ procs[p].pc = "r_hold"
    /\ procs' = [procs EXCEPT ![p].hs = get_holdings, ![p].pc = "r_port"]
    /\ UNCHANGED <<clock, factVars, scoreVars, challenges, lastOp>>

\* portfolio = await get_portfolio()
PRefreshPort(p) ==
    /\ procs[p].pc = "r_port"
    /\ procs' = [procs EXCEPT ![p].bal = balance, ![p].pc = "r_cl"]
    /\ UNCHANGED <<clock, factVars, scoreVars, challenges, lastOp>>

\* checklists_raw = await get_checklists_raw(30); the loop over active begins.
PRefreshCl(p) ==
    /\ procs[p].pc = "r_cl"
    /\ procs' = [procs EXCEPT ![p].cs = get_checklists_raw(30, clock),
                              ![p].todo = SetToSeq(procs[p].active),
                              ![p].pc = "r_upd"]
    /\ UNCHANGED <<clock, factVars, scoreVars, challenges, lastOp>>

\* One iteration of "for ch in active": progress from the snapshots, then
\* await update_challenge(ch["id"], ...).
PRefreshUpdate(p) ==
    LET me == procs[p]
    IN  /\ me.pc = "r_upd"
        /\ me.todo # << >>
        /\ challenges' = RefreshOne(challenges, Head(me.todo), me.hs, me.bal,
                                    me.txs, me.cs, me.now, clock)
        /\ procs' = [procs EXCEPT ![p].todo = Tail(me.todo)]
        /\ UNCHANGED <<clock, factVars, scoreVars, lastOp>>

\* remaining = await get_active_challenges(); active_types = {...}
PRefreshRemaining(p) ==
    LET me == procs[p]
    IN  /\ me.pc = "r_upd"
        /\ me.todo = << >>
        /\ procs' = [procs EXCEPT
                        ![p].active_types = ActiveTypesAfterUpdates(me.active, challenges),
                        ![p].pc = "seed"]
        /\ UNCHANGED <<clock, factVars, scoreVars, challenges, lastOp>>

\* challenges_get_active: active = await get_active_challenges(); with none
\* active the seeding loop follows, else only reads do.
PReadStart(p) ==
    LET active == get_active_challenges(challenges)
    IN  /\ procs[p].pc = "idle"
        /\ procs' = [procs EXCEPT ![p] =
                        NewProc("read", IF active = {} THEN "seed" ELSE "finish",
                                clock, active, {})]
        /\ UNCHANGED <<clock, factVars, scoreVars, challenges, lastOp>>

\* The templates from k on that the seeding loop will insert.
ToSeed(me) ==
    {i \in me.k .. Len(CHALLENGE_TEMPLATES) :
        MissingFromActive(CHALLENGE_TEMPLATES[i].challenge_type, me.active_types)}

\* The next "await add_challenge(...)" of the seeding loop; an IntegrityError
\* ends the handler.
PSeed(p) ==
    LET me == procs[p]
        i == CHOOSE j \in ToSeed(me) : \A j2 \in ToSeed(me) : j <= j2
        tmpl == CHALLENGE_TEMPLATES[i]
        id == ChallengeId(tmpl.challenge_type, me.now)
    IN  /\ me.pc = "seed"
        /\ ToSeed(me) # {}
        /\ IF add_challenge_raises(challenges, id)
           THEN /\ procs' = [procs EXCEPT ![p].pc = "done", ![p].raised = TRUE]
                /\ UNCHANGED challenges
           ELSE /\ Cardinality(challenges) < MaxChRows
                /\ challenges' = add_challenge(challenges, id, tmpl.challenge_type,
                                     tmpl.target_value, me.now,
                                     me.now + Days(tmpl.duration_days))
                /\ procs' = [procs EXCEPT ![p].k = i + 1,
                                          ![p].seeded = me.seeded \cup {tmpl.challenge_type}]
        /\ UNCHANGED <<clock, factVars, scoreVars, lastOp>>

\* The seeding loop is over.
PSeedEnd(p) ==
    /\ procs[p].pc = "seed"
    /\ ToSeed(procs[p]) = {}
    /\ procs' = [procs EXCEPT ![p].pc = "finish"]
    /\ UNCHANGED <<clock, factVars, scoreVars, challenges, lastOp>>

\* The reads that end both handlers (get_active_challenges, and for the read
\* the fact tables): nothing is written, the response is returned.
PFinish(p) ==
    /\ procs[p].pc = "finish"
    /\ procs' = [procs EXCEPT ![p].pc = "done"]
    /\ UNCHANGED <<clock, factVars, scoreVars, challenges, lastOp>>

PStep(p) ==
    \/ PRefreshStart(p) \/ PRefreshTx(p) \/ PRefreshHold(p) \/ PRefreshPort(p)
    \/ PRefreshCl(p) \/ PRefreshUpdate(p) \/ PRefreshRemaining(p)
    \/ PReadStart(p) \/ PSeed(p) \/ PSeedEnd(p) \/ PFinish(p)

\* Two handlers in steps over facts that do not change.
NextChRace ==
    \/ ChInstant
    \/ ChRead
    \/ \E p \in Procs : PStep(p)

SpecChRace == InitChConc /\ [][NextChRace]_vars

\* One handler in steps; trades and whole handlers run between its steps.
StepProcs == {1}

NextChConc ==
    \/ ChInstant
    \/ ChTrade
    \/ ChRefresh
    \/ \E p \in StepProcs : PStep(p)

SpecChConc == InitChConc /\ [][NextChConc]_vars

\* C9: when two challenge handlers interleave at their database calls, they do
\* not both insert an active instance of one type: once both have finished, the
\* rows of a type that the two seeded are not both active.
C9_NoDoubleSeed ==
    \A p \in Procs : \A q \in Procs :
        (p # q /\ procs[p].pc = "done" /\ procs[q].pc = "done") =>
            \A t \in procs[p].seeded \cap procs[q].seeded :
                ~(\E r \in challenges : \E r2 \in challenges :
                      /\ r.id = ChallengeId(t, procs[p].now)
                      /\ r2.id = ChallengeId(t, procs[q].now)
                      /\ r.id # r2.id
                      /\ r.status = "active" /\ r2.status = "active")

\* C10: with refreshes and trades interleaved, a challenge row that is
\* 'completed' or 'expired' is never written back to 'active'.
C10_NoStaleReactivation ==
    [][\A r \in challenges :
          Terminal(r) =>
              \E r2 \in challenges' : r2.id = r.id /\ r2.status # "active"]_vars

(***************************************************************************)
(* scoring_engine.py.  The five score functions return exact rationals;    *)
(* compute_all_scores rounds them to tenths.                               *)
(***************************************************************************)
\* Clamp of every score function: max(0.0, min(100.0, score)).
Clamp100(x) == RMax(RInt(0), RMin(RInt(100), x))

\* The penalty of one position: (pct - 25) * 1.5 where pct > 25.
ConcentrationPenalty(pct) ==
    IF RLt(RInt(25), pct) THEN RMul(RSub(pct, RInt(25)), Rat(3, 2)) ELSE RInt(0)

\* The penalty of the cash share: (10 - cash_pct) * 2 where cash_pct < 10.
CashPenalty(cash_pct) ==
    IF RLt(cash_pct, RInt(10)) THEN RMul(RSub(RInt(10), cash_pct), RInt(2)) ELSE RInt(0)

\* The penalty of the number of holdings: 15 per holding missing below 3.
DiversityPenalty(num_holdings) ==
    IF num_holdings < 3 THEN (3 - num_holdings) * 15 ELSE 0

Pct(val, total_value) == RMul(RDiv(val, total_value), RInt(100))

\* The score before the clamp, for total_value > 0.
RiskRaw(hs, balance_, total_value) ==
    RSub(RSub(RInt(100 - DiversityPenalty(Len(hs))),
              CashPenalty(Pct(RInt(balance_), total_value))),
         RSeqSum([i \in DOMAIN hs |->
                     ConcentrationPenalty(Pct(PositionValue(hs[i]), total_value))]))

RiskFrom_NoClamp(hs, balance_, total_value) ==
    IF RLe(total_value, RInt(0)) THEN RInt(50)
    ELSE RiskRaw(hs, balance_, total_value)

RiskFrom(hs, balance_, total_value) ==
    IF RLe(total_value, RInt(0)) THEN RInt(50)
    ELSE Clamp100(RiskRaw(hs, balance_, total_value))

compute_risk_score(holdings_, balance_) ==
    RiskFrom(SetToSeq(holdings_), balance_, TotalValue(holdings_, balance_))

\* completion_ratio * 60 + (avg_items / 5) * 40 - skip_ratio * 20
DisciplineRaw(total_checklists, full_completions, items, skips) ==
    RSub(RAdd(RMul(Rat(full_completions, total_checklists), RInt(60)),
              RMul(RDiv(Rat(items, total_checklists), RInt(5)), RInt(40))),
         RMul(Rat(skips, total_checklists), RInt(20)))

compute_discipline_score(cs, trade_count) ==
    IF trade_count = 0 THEN RInt(50)
    ELSE IF Len(cs) = 0 THEN RInt(20)
    ELSE Clamp100(DisciplineRaw(
            Len(cs),
            Cardinality({i \in DOMAIN cs : cs[i].completed_count = 5 /\ ~cs[i].skipped}),
            SeqSum([i \in DOMAIN cs |-> cs[i].completed_count]),
            Cardinality({i \in DOMAIN cs : cs[i].skipped})))

\* What one sell adds to the tallies, given buy_map[sym] (newest buy first,
\* as get_transactions returns the rows) and the mean buy price of the symbol.
SellOutcome(sell, sym_buys, avg_buy) ==
    IF sym_buys = << >>
    THEN [matched |-> FALSE, win |-> FALSE, profit |-> RInt(0), loss |-> RInt(0),
          timed |-> FALSE, days |-> RInt(0)]
    ELSE [matched |-> TRUE,
          win |-> RLt(avg_buy, RInt(sell.price)),
          profit |-> IF RLt(avg_buy, RInt(sell.price))
                     THEN RMul(RSub(RInt(sell.price), avg_buy), RInt(sell.quantity))
                     ELSE RInt(0),
          loss |-> IF RLt(avg_buy, RInt(sell.price))
                   THEN RInt(0)
                   ELSE RMul(RSub(avg_buy, RInt(sell.price)), RInt(sell.quantity)),
          timed |-> Parseable(sell.timestamp) /\ Parseable(sym_buys[1].timestamp),
          days |-> IF Parseable(sell.timestamp) /\ Parseable(sym_buys[1].timestamp)
                   THEN Rat(sell.timestamp - sym_buys[1].timestamp, TicksPerDay)
                   ELSE RInt(0)]

AvgPrice(sym_buys) ==
    IF sym_buys = << >> THEN RInt(0)
    ELSE Rat(SeqSum([i \in DOMAIN sym_buys |-> sym_buys[i].price]), Len(sym_buys))

BuysOfSymbol(buys, sym) == SelectSeqOf(buys, {b \in Range(buys) : b.symbol = sym})

SellOutcomeOf(sell, sym_buys) == SellOutcome(sell, sym_buys, AvgPrice(sym_buys))

\* avg_duration >= 3 and >= 1, as sum >= 3 * len and sum >= len.
DurationScore(durations) ==
    IF durations = << >> THEN 50
    ELSE IF RLe(RInt(3 * Len(durations)), RSeqSum(durations)) THEN 80
    ELSE IF RLe(RInt(Len(durations)), RSeqSum(durations)) THEN 60
    ELSE 30

PlRatio(total_profit, total_loss) ==
    RMin(IF RLt(RInt(0), total_loss) THEN RDiv(total_profit, total_loss) ELSE RInt(2),
         RInt(3))

\* win_rate * 40 + (pl_ratio / 3.0) * 30 + (duration_score / 100) * 30
StrategyRaw(wins, total_trades, pl_ratio, duration_score) ==
    RAdd(RAdd(RMul(Rat(wins, total_trades), RInt(40)),
              RMul(RDiv(pl_ratio, RInt(3)), RInt(30))),
         RMul(Rat(duration_score, 100), RInt(30)))

\* The days of the sells whose timestamp and whose newest buy's timestamp parse.
Durations(matched) ==
    [i \in DOMAIN SelectSeqOf(matched, {o \in Range(matched) : o.timed}) |->
        SelectSeqOf(matched, {o \in Range(matched) : o.timed})[i].days]

\* outcomes holds one SellOutcome per sell.
StrategyFrom(outcomes, matched) ==
    IF matched = << >> THEN RInt(40)
    ELSE Clamp100(StrategyRaw(
            Cardinality({i \in DOMAIN outcomes : outcomes[i].win}),
            Len(matched),
            PlRatio(RSeqSum([i \in DOMAIN outcomes |-> outcomes[i].profit]),
                    RSeqSum([i \in DOMAIN outcomes |-> outcomes[i].loss])),
            DurationScore(Durations(matched))))

StrategyOutcomes(outcomes) ==
    StrategyFrom(outcomes, SelectSeqOf(outcomes, {o \in Range(outcomes) : o.matched}))

StrategySplit(sells, buys) ==
    StrategyOutcomes([i \in DOMAIN sells |->
                        SellOutcomeOf(sells[i], BuysOfSymbol(buys, sells[i].symbol))])

compute_strategy_score(txs) ==
    StrategySplit(SelectSeqOf(txs, {t \in Range(txs) : t.action = "sell"}),
                  SelectSeqOf(txs, {t \in Range(txs) : t.action = "buy"}))

Deduction(pattern) ==
    CASE pattern = "fomo_buy" -> 10
      [] pattern = "panic_sell" -> 15
      [] pattern = "overtrading" -> 10
      [] OTHER -> 5

RECURSIVE PatternSet(_)
PatternSet(triggers) ==
    IF triggers = << >> THEN {}
    ELSE {Head(triggers).pattern_type} \cup PatternSet(Tail(triggers))

compute_psychology_score_Deduplicated(triggers) ==
    Clamp100(RInt(100 - SeqSum([i \in DOMAIN SetToSeq(PatternSet(triggers)) |->
                                   Deduction(SetToSeq(PatternSet(triggers))[i])])))

compute_psychology_score(triggers) ==
    Clamp100(RInt(100 - SeqSum([i \in DOMAIN triggers |->
                                   Deduction(triggers[i].pattern_type)])))

\* The scores of the history rows that the stability component pools:
\* the four scores of every row that are > 0 (in tenths).
ScoreKeys == <<"risk_score", "discipline_score", "strategy_score", "psychology_score">>

AllScores(history) ==
    [j \in 1..(Len(history) * Len(ScoreKeys)) |->
        history[((j - 1) \div Len(ScoreKeys)) + 1][ScoreKeys[((j - 1) % Len(ScoreKeys)) + 1]]]

Positive(all) == SelectSeqOf(all, {v \in Range(all) : v > 0})

PooledScores(history) == Positive(AllScores(history))

\* statistics.variance (sample variance) of scores given in tenths, as a
\* rational in score units.  The values are shifted by their integer mean
\* first, which leaves the variance unchanged.
VarianceShifted(n, sw, sw2) ==
    RDiv(RSub(RInt(sw2), Rat(sw * sw, n)), RInt((n - 1) * 100))

VarianceAbout(vals, c) ==
    VarianceShifted(Len(vals),
                    SeqSum([i \in DOMAIN vals |-> vals[i] - c]),
                    SeqSum([i \in DOMAIN vals |-> (vals[i] - c) * (vals[i] - c)]))

Variance(vals) == VarianceAbout(vals, SeqSum(vals) \div Len(vals))

StabilityOf(pooled) ==
    IF Len(pooled) >= 3
    THEN RMul(RDiv(RMax(RInt(0), RSub(RInt(100), RDiv(Variance(pooled), RInt(5)))),
                   RInt(100)),
              RInt(30))
    ELSE RInt(30)

StabilityComponent(history) ==
    IF Len(history) >= 3 THEN StabilityOf(PooledScores(history)) ELSE RInt(30)

\* Days of the history whose mean of the four scores is < 30.
DrawdownDays(history) ==
    Cardinality({i \in DOMAIN history :
        history[i].risk_score + history[i].discipline_score
        + history[i].strategy_score + history[i].psychology_score < 4 * 300})

\* total_days is always the default, 30.
compute_consistency_score(daily_scores_history, active_days) ==
    Clamp100(RAdd(RAdd(RMul(RMin(Rat(active_days, 30), RInt(1)), RInt(50)),
                       StabilityComponent(daily_scores_history)),
                  RMul(RSub(RInt(1), Rat(DrawdownDays(daily_scores_history),
                                         Max(Len(daily_scores_history), 1))),
                       RInt(20))))

check_eligibility(trade_count, active_days) ==
    trade_count >= 25 \/ active_days >= 15

\* The scores are returned as numbers of tenths.
compute_all_scores(holdings_, balance_, cs, txs, triggers, history, active_days, trade_count) ==
    [risk |-> RoundTenths(compute_risk_score(holdings_, balance_)),
     discipline |-> RoundTenths(compute_discipline_score(cs, trade_count)),
     strategy |-> RoundTenths(compute_strategy_score(txs)),
     psychology |-> RoundTenths(compute_psychology_score(triggers)),
     consistency |-> RoundTenths(compute_consistency_score(history, active_days)),
     eligible |-> check_eligibility(trade_count, active_days),
     trade_count |-> trade_count,
     active_days |-> active_days]

BADGE_DEFINITIONS ==
    << [badge_type |-> "risk_guardian", score |-> "risk_score", threshold |-> 75,
        days |-> 21, requires_sentiment |-> FALSE],
       [badge_type |-> "discipline_master", score |-> "discipline_score", threshold |-> 80,
        days |-> 21, requires_sentiment |-> FALSE],
       [badge_type |-> "consistency_pro", score |-> "consistency_score", threshold |-> 70,
        days |-> 21, requires_sentiment |-> FALSE],
       [badge_type |-> "strategy_builder", score |-> "strategy_score", threshold |-> 70,
        days |-> 21, requires_sentiment |-> FALSE],
       [badge_type |-> "psychology_champion", score |-> "psychology_score", threshold |-> 75,
        days |-> 21, requires_sentiment |-> FALSE],
       [badge_type |-> "market_aware", score |-> "psychology_score", threshold |-> 70,
        days |-> 21, requires_sentiment |-> TRUE] >>

BadgeTypes == {BADGE_DEFINITIONS[i].badge_type : i \in DOMAIN BADGE_DEFINITIONS}

\* sum(1 for ds in daily_scores if ds.get(score_key, 0) >= threshold); the
\* stored scores are tenths.
QualifyingDays(daily, score_key, threshold) ==
    Cardinality({j \in DOMAIN daily : daily[j][score_key] >= threshold * 10})

EarnedByDays_Strict(qualifying_days, required_days) == qualifying_days > required_days

\* earned = qualifying_days >= required_days
EarnedByDays(qualifying_days, required_days) == qualifying_days >= required_days

\* sum(1 for t in mentor_triggers if t.get('pattern_type') == 'sentiment_fomo')
FomoCount(triggers) ==
    Cardinality({j \in DOMAIN triggers : triggers[j].pattern_type = "sentiment_fomo"})

SentimentVeto_AnyBadge(defn, earned, triggers) == earned /\ FomoCount(triggers) > 0

\* "if defn.get('requires_sentiment') and earned and mentor_triggers is not
\* None: ... if fomo_count > 0: earned = False"; the aggregator always passes
\* the trigger list.
SentimentVeto(defn, earned, triggers) ==
    defn.requires_sentiment /\ earned /\ FomoCount(triggers) > 0

\* One iteration of "for badge_type, defn in BADGE_DEFINITIONS.items()".
EvaluateBadge(defn, qualifying_days, triggers) ==
    [badge_type |-> defn.badge_type,
     earned |-> /\ EarnedByDays(qualifying_days, defn.days)
                /\ ~SentimentVeto(defn, EarnedByDays(qualifying_days, defn.days), triggers),
     active |-> /\ EarnedByDays(qualifying_days, defn.days)
                /\ ~SentimentVeto(defn, EarnedByDays(qualifying_days, defn.days), triggers),
     qualifying_days |-> qualifying_days, required_days |-> defn.days]

evaluate_badges(daily, triggers) ==
    [i \in DOMAIN BADGE_DEFINITIONS |->
        EvaluateBadge(BADGE_DEFINITIONS[i],
                      QualifyingDays(daily, BADGE_DEFINITIONS[i].score,
                                     BADGE_DEFINITIONS[i].threshold),
                      triggers)]

(***************************************************************************)
(* database.py: tables daily_scores, badges and mentor_triggers.           *)
(***************************************************************************)
get_mentor_triggers_raw(days, now) ==
    SelectSeqOf(mentor_triggers,
                {t \in Range(mentor_triggers) : t.created_at >= now - Days(days)})

add_mentor_trigger(triggers, pattern_type, created_at) ==
    Append(triggers, [pattern_type |-> pattern_type, created_at |-> created_at])

\* scores is the result of compute_all_scores: the run passes
\* scores.trade_count and scores.active_days > 0 as trade_count and active_day.
DailyRow(date, scores, computed_at) ==
    [date |-> date,
     risk_score |-> scores.risk, discipline_score |-> scores.discipline,
     strategy_score |-> scores.strategy, psychology_score |-> scores.psychology,
     consistency_score |-> scores.consistency,
     trade_count |-> scores.trade_count, active_day |-> scores.active_days > 0,
     computed_at |-> computed_at]

\* INSERT with no conflict clause honoured: a row is added whatever the date.
upsert_daily_score_AlwaysInsert(rows, date, scores, now) ==
    rows \cup {DailyRow(date, scores, now)}

\* INSERT ... ON CONFLICT(date) DO UPDATE SET every other column.
upsert_daily_score(rows, date, scores, now) ==
    {r \in rows : r.date # date} \cup {DailyRow(date, scores, now)}

\* SELECT * FROM daily_scores WHERE date >= cutoff ORDER BY date DESC
RECURSIVE ByDateDesc(_)
ByDateDesc(rows) ==
    IF rows = {} THEN << >>
    ELSE LET r == CHOOSE x \in rows : \A y \in rows : y.date <= x.date
         IN  <<r>> \o ByDateDesc(rows \ {r})

get_daily_scores(rows, days, now) ==
    ByDateDesc({r \in rows : r.date >= DateOf(now - Days(days))})

BadgeRow(b, first_earned_at, last_active_at, updated_at) ==
    [badge_type |-> b.badge_type, earned |-> b.earned, active |-> b.active,
     qualifying_days |-> b.qualifying_days, first_earned_at |-> first_earned_at,
     last_active_at |-> last_active_at, updated_at |-> updated_at]

\* COALESCE(badges.first_earned_at, excluded.first_earned_at)
Coalesce_Excluded(old, new) == new

Coalesce(old, new) == IF old # << >> THEN old ELSE new

\* CASE WHEN excluded.active = 1 THEN excluded.updated_at ELSE badges.last_active_at END
LastActiveAt_Excluded(old, active, updated_at) ==
    IF active THEN <<updated_at>> ELSE << >>

LastActiveAt(old, active, updated_at) ==
    IF active THEN <<updated_at>> ELSE old

UpdateBadge(old, b, first_earned_at, updated_at) ==
    BadgeRow(b, Coalesce(old.first_earned_at, first_earned_at),
             LastActiveAt(old.last_active_at, b.active, updated_at), updated_at)

\* b is one result of evaluate_badges; first_earned_at is an optional.
upsert_badge(rows, b, first_earned_at, updated_at) ==
    IF \E r \in rows : r.badge_type = b.badge_type
    THEN {IF r.badge_type = b.badge_type
          THEN UpdateBadge(r, b, first_earned_at, updated_at) ELSE r : r \in rows}
    ELSE rows \cup {BadgeRow(b, first_earned_at,
                             IF b.active THEN <<updated_at>> ELSE << >>, updated_at)}

RECURSIVE UpsertBadges(_, _, _, _)
UpsertBadges(rows, results, k, now) ==
    IF k > Len(results) THEN rows
    ELSE UpsertBadges(upsert_badge(rows, results[k],
                                   IF results[k].earned THEN <<now>> ELSE << >>, now),
                      results, k + 1, now)

(***************************************************************************)
(* server.py: the daily aggregator.                                        *)
(***************************************************************************)
RecentTxns(now) ==
    SelectSeqOf(get_transactions,
                {t \in Range(get_transactions) :
                    IsoStringGe(t.timestamp, now - Days(30))})

\* active_dates: the set of timestamp[:10] of the recent rows.
ActiveDays(recent_txns) ==
    Cardinality({DatePrefix(t.timestamp) : t \in Range(recent_txns)})

ScoresFromFacts(recent_txns, daily_history, now) ==
    compute_all_scores(get_holdings, balance, get_checklists_raw(30, now),
                       recent_txns, get_mentor_triggers_raw(30, now),
                       daily_history, ActiveDays(recent_txns), Len(recent_txns))

\* The scores one run computes from the facts and the history it read.
AggregatorScores(daily_history, now) ==
    ScoresFromFacts(RecentTxns(now), daily_history, now)

\* The second half of a run: the badges from the updated table.
UpdateBadges(ds2, bg, now) ==
    [daily_scores |-> ds2,
     badges |-> UpsertBadges(bg, evaluate_badges(get_daily_scores(ds2, 30, now),
                                                 get_mentor_triggers_raw(30, now)),
                             1, now)]

compute_daily_scores_internal_BadgesFirst(ds, bg, now) ==
    [daily_scores |-> upsert_daily_score(ds, DateOf(now),
                          AggregatorScores(get_daily_scores(ds, 30, now), now), now),
     badges |-> UpdateBadges(ds, bg, now).badges]

\* The tables daily_scores and badges that one whole run leaves.
compute_daily_scores_internal(ds, bg, now) ==
    UpdateBadges(upsert_daily_score(ds, DateOf(now),
                                    AggregatorScores(get_daily_scores(ds, 30, now), now),
                                    now),
                 bg, now)

WriteTables(out, existed) ==
    /\ daily_scores' = out.daily_scores
    /\ badges' = out.badges
    /\ UNCHANGED monthly_reports
    /\ lastOp' = IF existed THEN "aggregate_update" ELSE "aggregate_insert"

\* One whole run at instant now; lastOp tells which branch of
\* upsert_daily_score it took.
Aggregate(now) ==
    WriteTables(compute_daily_scores_internal(daily_scores, badges, now),
                \E r \in daily_scores : r.date = DateOf(now))

\* _daily_score_scheduler, first iteration: the run at server start.
\* procs holds the position of the scheduler loop.
scheduler_first_run ==
    /\ procs = <<"start">>
    /\ procs' = <<"sleep">>
    /\ Aggregate(clock)
    /\ UNCHANGED <<clock, factVars, challenges>>

\* _daily_score_scheduler, later iterations: sleeps until the next day, runs.
daily_score_scheduler(lastDay) ==
    /\ procs = <<"sleep">>
    /\ DateOf(clock) < lastDay
    /\ clock' = Days(DateOf(clock) + 1)
    /\ Aggregate(Days(DateOf(clock) + 1))
    /\ UNCHANGED <<factVars, challenges, procs>>

\* POST /api/evaluation/compute
evaluation_compute ==
    /\ Aggregate(clock)
    /\ UNCHANGED <<clock, factVars, challenges, procs>>

\* mentor_analyze saves one trigger per alert; the alert that run_all_checks
\* reports is an input.
AlertPatterns == {"panic_sell", "sentiment_fomo"}

mentor_analyze(pattern_type) ==
    /\ mentor_triggers' = add_mentor_trigger(mentor_triggers, pattern_type, clock)
    /\ lastOp' = "facts"
    /\ UNCHANGED <<clock, balance, holdings, transactions, checklists,
                   sentiment_cache, scoreVars, challenges, procs>>

(***************************************************************************)
(* SpecAgg: the aggregator over a trading account, a few days long.        *)
(***************************************************************************)
AggAssets == {[symbol |-> "AAPL", type |-> "stock"]}
FactCount == Len(transactions) + Len(checklists) + Len(mentor_triggers)

InitAgg ==
    /\ clock = 0
    /\ balance = DEFAULT_BALANCE
    /\ holdings = {}
    /\ transactions = << >>
    /\ checklists = << >>
    /\ mentor_triggers = << >>
    /\ sentiment_cache = {}
    /\ daily_scores = {}
    /\ badges = {}
    /\ monthly_reports = << >>
    /\ challenges = {}
    /\ procs = <<"start">>
    /\ lastOp = "init"

AggScheduler == daily_score_scheduler(MaxAggDay)

AggCompute == evaluation_compute

AggTrade ==
    \E a \in AggAssets, action \in TradeActions, qty \in Quantities, price \in Prices :
        /\ FactCount < MaxFacts
        /\ db_execute_trade(a.symbol, a.type, action, qty, price)
        /\ lastOp' = "facts"
        /\ UNCHANGED <<clock, checklists, mentor_triggers, sentiment_cache,
                       scoreVars, challenges, procs>>

AggChecklist ==
    \E req \in ChecklistRequests :
        /\ FactCount < MaxFacts
        /\ db_create_checklist(req.completedCount, req.skipped)
        /\ lastOp' = "facts"
        /\ UNCHANGED <<clock, balance, holdings, transactions, mentor_triggers,
                       sentiment_cache, scoreVars, challenges, procs>>

AggMentor ==
    \E pattern_type \in AlertPatterns :
        /\ FactCount < MaxFacts
        /\ mentor_analyze(pattern_type)

NextAgg == scheduler_first_run \/ AggScheduler \/ AggCompute \/ AggTrade \/ AggChecklist \/ AggMentor

SpecAgg == InitAgg /\ [][NextAgg]_vars

(***************************************************************************)
(* SpecBadge: the scheduled runs over the weeks a badge takes, on an       *)
(* account that does not trade.                                            *)
(***************************************************************************)
BadgeScheduler == daily_score_scheduler(MaxBadgeDay)

BadgeMentor ==
    \E pattern_type \in AlertPatterns :
        /\ Len(mentor_triggers) < MaxTriggers
        /\ mentor_analyze(pattern_type)

NextBadge == scheduler_first_run \/ BadgeScheduler \/ BadgeMentor

SpecBadge == InitAgg /\ [][NextBadge]_vars

(***************************************************************************)
(* The claims about the aggregator and the badges.                         *)
(***************************************************************************)
AggregateOps == {"aggregate_insert", "aggregate_update"}

\* What claim C3 compares of the row of a date.
ScoresOfDate(rows, date) ==
    {[risk |-> r.risk_score, discipline |-> r.discipline_score,
      strategy |-> r.strategy_score, psychology |-> r.psychology_score,
      consistency |-> r.consistency_score, trade_count |-> r.trade_count,
      active_day |-> r.active_day] : r \in {x \in rows : x.date = date}}

\* C3: a run of the aggregator that follows another run on the same date,
\* with no fact recorded in between, leaves the row of the date with the
\* same five scores, trade_count and active_day.
C3_SecondRunSameRow ==
    [][(lastOp \in AggregateOps /\ lastOp' = "aggregate_update"
            /\ DateOf(clock') = DateOf(clock))
        => ScoresOfDate(daily_scores', DateOf(clock))
               = ScoresOfDate(daily_scores, DateOf(clock))]_vars

\* C4: table daily_scores holds at most one row per date.
C4_OneRowPerDate ==
    \A r1 \in daily_scores : \A r2 \in daily_scores : r1.date = r2.date => r1 = r2

\* A run has overwritten the row of its date, rows of earlier dates are
\* there, and the row shows a trade recorded on its date.
C4_Witness ==
    /\ lastOp = "aggregate_update"
    /\ \E r \in daily_scores : r.date = DateOf(clock) /\ r.active_day
    /\ \E r \in daily_scores : r.date < DateOf(clock)

\* C7: the five scores of every row of daily_scores are in [0, 100]
\* (0..1000 tenths).
C7_ScoresInRange ==
    \A r \in daily_scores :
        \A v \in {r.risk_score, r.discipline_score, r.strategy_score,
                  r.psychology_score, r.consistency_score} : v \in 0..1000

\* A row whose risk score is the clamped 0: no cash and a single position.
C7_Witness ==
    \E r \in daily_scores : r.risk_score = 0 /\ r.trade_count > 0 /\ balance = 0

\* C5: a first_earned_at that is set stays, whatever the later upserts.
C5_FirstEarnedKept ==
    [][\A b \in badges :
          b.first_earned_at # << >> =>
              /\ \E b2 \in badges' : b2.badge_type = b.badge_type
              /\ \A b2 \in badges' :
                    b2.badge_type = b.badge_type
                        => b2.first_earned_at = b.first_earned_at]_vars

\* A badge that was earned and that a later run has evaluated not earned.
C5_Witness ==
    \E b \in badges :
        /\ b.first_earned_at # << >>
        /\ ~b.earned
        /\ b.updated_at > b.first_earned_at[1]

\* C6: a run stamps last_active_at with its timestamp on the badges it
\* evaluates active, and leaves last_active_at of the other rows as it was.
C6_LastActiveAt ==
    [][lastOp' \in AggregateOps =>
          \A b2 \in badges' :
              IF b2.active
              THEN b2.last_active_at = <<clock'>>
              ELSE \A b \in badges :
                      b.badge_type = b2.badge_type
                          => b2.last_active_at = b.last_active_at]_vars

\* A badge that was active and that a later run has evaluated not active.
C6_Witness ==
    \E b \in badges :
        /\ ~b.active
        /\ b.last_active_at # << >>
        /\ b.updated_at > b.last_active_at[1]

\* The history and the triggers that the run which has just ended gave to
\* evaluate_badges.
EvaluatedHistory == get_daily_scores(daily_scores, 30, clock)
EvaluatedTriggers == get_mentor_triggers_raw(30, clock)

\* C12: for each of the 6 badge definitions the evaluation that a run stores has
\* qualifying_days = the number of history rows whose score in the badge's
\* dimension is >= the badge's threshold, earned = (qualifying_days >= 21)
\* unless the sentiment veto applies, and active = earned.
C12_BadgeEvaluation ==
    lastOp \in AggregateOps =>
        /\ Len(BADGE_DEFINITIONS) = 6
        /\ Cardinality(BadgeTypes) = 6
        /\ \A i \in DOMAIN BADGE_DEFINITIONS :
              \E b \in badges :
                  /\ b.badge_type = BADGE_DEFINITIONS[i].badge_type
                  /\ b.qualifying_days =
                         Cardinality({j \in DOMAIN EvaluatedHistory :
                             EvaluatedHistory[j][BADGE_DEFINITIONS[i].score]
                                 >= 10 * BADGE_DEFINITIONS[i].threshold})
                  /\ b.active = b.earned
                  /\ \/ /\ b.badge_type = "market_aware"
                        /\ \E j \in DOMAIN EvaluatedTriggers :
                              EvaluatedTriggers[j].pattern_type = "sentiment_fomo"
                     \/ b.earned = (b.qualifying_days >= 21)

\* A run has evaluated a badge with exactly 21 qualifying days as earned, and
\* another with fewer qualifying days than history rows as not earned.
C12_Witness ==
    /\ lastOp \in AggregateOps
    /\ \E b \in badges : b.qualifying_days = 21 /\ b.earned /\ b.active
    /\ \E b \in badges :
          /\ b.qualifying_days < Len(EvaluatedHistory)
          /\ ~b.earned /\ ~b.active

\* The history rows of the days before the run's day that meet a threshold.
EarlierQualifying(score_key, threshold) ==
    {j \in DOMAIN EvaluatedHistory :
        /\ EvaluatedHistory[j].date # DateOf(clock)
        /\ EvaluatedHistory[j][score_key] >= 10 * threshold}

\* C25: the badge rows a run leaves are computed after its DailyScore upsert,
\* from the history that holds the row just written: each badge's
\* qualifying_days is the count of the earlier days of the window that meet its
\* threshold, plus one when today's freshly written row meets it.
C25_BadgesCountTodaysRow ==
    lastOp \in AggregateOps =>
        \E today \in daily_scores :
            /\ today.date = DateOf(clock)
            /\ today.computed_at = clock
            /\ \A i \in DOMAIN BADGE_DEFINITIONS :
                  \E b \in badges :
                      /\ b.badge_type = BADGE_DEFINITIONS[i].badge_type
                      /\ b.updated_at = clock
                      /\ b.qualifying_days =
                             Cardinality(EarlierQualifying(BADGE_DEFINITIONS[i].score,
                                                           BADGE_DEFINITIONS[i].threshold))
                             + (IF today[BADGE_DEFINITIONS[i].score]
                                       >= 10 * BADGE_DEFINITIONS[i].threshold
                                THEN 1 ELSE 0)

\* A run has inserted today's row, which meets the threshold of one badge and
\* is counted in it on top of an earlier day, and misses that of another.
C25_Witness ==
    /\ lastOp = "aggregate_insert"
    /\ \E today \in daily_scores, b \in badges, i \in DOMAIN BADGE_DEFINITIONS :
          /\ today.date = DateOf(clock)
          /\ b.badge_type = BADGE_DEFINITIONS[i].badge_type
          /\ today[BADGE_DEFINITIONS[i].score] >= 10 * BADGE_DEFINITIONS[i].threshold
          /\ b.qualifying_days
                 = Cardinality(EarlierQualifying(BADGE_DEFINITIONS[i].score,
                                                 BADGE_DEFINITIONS[i].threshold)) + 1
          /\ b.qualifying_days >= 2
    /\ \E today \in daily_scores, i \in DOMAIN BADGE_DEFINITIONS :
          /\ today.date = DateOf(clock)
          /\ today[BADGE_DEFINITIONS[i].score] < 10 * BADGE_DEFINITIONS[i].threshold

\* C13: when a sentiment_fomo trigger is in the 30-day window at evaluation
\* time, market_aware is stored not earned and not active whatever its
\* qualifying-day count; the earned value of every other badge follows from its
\* qualifying days alone.
C13_FomoVetoesMarketAware ==
    lastOp \in AggregateOps =>
        \A b \in badges :
            IF b.badge_type = "market_aware"
            THEN (\E j \in DOMAIN EvaluatedTriggers :
                      EvaluatedTriggers[j].pattern_type = "sentiment_fomo")
                     => ~b.earned /\ ~b.active
            ELSE b.earned = (b.qualifying_days >= 21)

\* With a sentiment_fomo trigger in the window, market_aware has its 21
\* qualifying days and is not earned, while psychology_champion is earned.
C13_Witness ==
    /\ lastOp \in AggregateOps
    /\ \E j \in DOMAIN EvaluatedTriggers :
          EvaluatedTriggers[j].pattern_type = "sentiment_fomo"
    /\ \E b \in badges :
          b.badge_type = "market_aware" /\ b.qualifying_days >= 21 /\ ~b.earned
    /\ \E b \in badges : b.badge_type = "psychology_champion" /\ b.earned

(***************************************************************************)
(* SpecAggConc: two invocations of the aggregator on one date that         *)
(* interleave at their database calls, after scheduled runs on earlier     *)
(* days.  No fact is recorded, so the five reads of the fact tables are    *)
(* folded into the step that reads the history.  A run in flight is the    *)
(* record procs[p]: pc, now, scores (from compute_all_scores),             *)
(* badge_results (from evaluate_badges), k (next badge) and base, the      *)
(* tables daily_scores and badges as they were when the first of the two   *)
(* started.                                                                *)
(***************************************************************************)
AllIdle == \A p \in Procs : procs[p].pc = "idle"

\* One iteration of the scheduler loop with nothing else in flight: the run,
\* then the sleep until the next day.
ConcScheduled ==
    /\ AllIdle
    /\ DateOf(clock) < MaxAggDay
    /\ Aggregate(clock)
    /\ clock' = Days(DateOf(clock) + 1)
    /\ UNCHANGED <<factVars, challenges, procs>>

BaseOf(p) ==
    IF \E q \in Procs : procs[q].pc # "idle"
    THEN procs[CHOOSE q \in Procs : procs[q].pc # "idle"].base
    ELSE [daily_scores |-> daily_scores, badges |-> badges]

\* today = utcnow().date(); the invocation begins.
AStart(p) ==
    /\ procs[p].pc = "idle"
    /\ procs' = [procs EXCEPT ![p] =
                    [pc |-> "history", now |-> clock, scores |-> << >>,
                     badge_results |-> << >>, k |-> 1, base |-> BaseOf(p)]]
    /\ UNCHANGED <<clock, factVars, scoreVars, challenges, lastOp>>

\* daily_history = await get_daily_scores(30); scores = compute_all_scores(...)
AHistory(p) ==
    /\ procs[p].pc = "history"
    /\ procs' = [procs EXCEPT
                    ![p].scores = AggregatorScores(
                                      get_daily_scores(daily_scores, 30, procs[p].now),
                                      procs[p].now),
                    ![p].pc = "upsert"]
    /\ UNCHANGED <<clock, factVars, scoreVars, challenges, lastOp>>

\* await upsert_daily_score(...)
AUpsertScore(p) ==
    /\ procs[p].pc = "upsert"
    /\ daily_scores' = upsert_daily_score(daily_scores, DateOf(procs[p].now),
                                          procs[p].scores, clock)
    /\ procs' = [procs EXCEPT ![p].pc = "reread"]
    /\ UNCHANGED <<clock, factVars, badges, monthly_reports, challenges, lastOp>>

\* updated_daily = await get_daily_scores(30); badge_results = evaluate_badges(...)
AReread(p) ==
    /\ procs[p].pc = "reread"
    /\ procs' = [procs EXCEPT
                    ![p].badge_results =
                        evaluate_badges(get_daily_scores(daily_scores, 30, clock),
                                        get_mentor_triggers_raw(30, procs[p].now)),
                    ![p].pc = "badge"]
    /\ UNCHANGED <<clock, factVars, scoreVars, challenges, lastOp>>

\* One iteration of "for b in badge_results": await upsert_badge(...)
AUpsertBadge(p) ==
    LET me == procs[p]
        b == me.badge_results[me.k]
    IN  /\ me.pc = "badge"
        /\ badges' = upsert_badge(badges, b, IF b.earned THEN <<clock>> ELSE << >>, clock)
        /\ procs' = [procs EXCEPT ![p].k = me.k + 1,
                                  ![p].pc = IF me.k = Len(me.badge_results)
                                            THEN "done" ELSE "badge"]
        /\ UNCHANGED <<clock, factVars, daily_scores, monthly_reports, challenges,
                       lastOp>>

NextAggConc ==
    \/ ConcScheduled
    \/ \E p \in Procs :
          AStart(p) \/ AHistory(p) \/ AUpsertScore(p) \/ AReread(p) \/ AUpsertBadge(p)

SpecAggConc == InitChConc /\ [][NextAggConc]_vars

\* The tables that two runs at instant now leave, one after the other.
TwoRuns(base, now) ==
    compute_daily_scores_internal(
        compute_daily_scores_internal(base.daily_scores, base.badges, now).daily_scores,
        compute_daily_scores_internal(base.daily_scores, base.badges, now).badges,
        now)

\* C8: once two interleaved invocations have both finished, tables
\* daily_scores and badges are what the two invocations leave when they run
\* one after the other.
C8_AsSequential ==
    (\A p \in Procs : procs[p].pc = "done") =>
        /\ daily_scores = TwoRuns(procs[1].base, clock).daily_scores
        /\ badges = TwoRuns(procs[1].base, clock).badges

(***************************************************************************)
(* scoring_engine.py: the letter grade of a report.                        *)
(***************************************************************************)
GradeOf_Exclusive(avg) ==
    IF RLt(RInt(90), avg) THEN "A+"
    ELSE IF RLe(RInt(80), avg) THEN "A"
    ELSE IF RLe(RInt(70), avg) THEN "B+"
    ELSE IF RLe(RInt(60), avg) THEN "B"
    ELSE IF RLe(RInt(50), avg) THEN "C+"
    ELSE IF RLe(RInt(40), avg) THEN "C"
    ELSE IF RLe(RInt(30), avg) THEN "D"
    ELSE "F"

\* The if / elif chain on avg.
GradeOf(avg) ==
    IF RLe(RInt(90), avg) THEN "A+"
    ELSE IF RLe(RInt(80), avg) THEN "A"
    ELSE IF RLe(RInt(70), avg) THEN "B+"
    ELSE IF RLe(RInt(60), avg) THEN "B"
    ELSE IF RLe(RInt(50), avg) THEN "C+"
    ELSE IF RLe(RInt(40), avg) THEN "C"
    ELSE IF RLe(RInt(30), avg) THEN "D"
    ELSE "F"

GradeKeys == <<"risk", "discipline", "strategy", "psychology", "consistency">>

\* avg = sum(scores.get(k, 0) for k in [...]) / 5; the scores are tenths.
GradeAverage(scores) ==
    Rat(SeqSum([k \in DOMAIN GradeKeys |-> scores[GradeKeys[k]]]), 10 * 5)

compute_overall_grade(scores) == GradeOf(GradeAverage(scores))

(***************************************************************************)
(* SpecGrade: compute_overall_grade applied to score records, one call     *)
(* after the other; procs holds the frame of the last call.                *)
(***************************************************************************)
\* Scores in tenths, as round(x, 1) leaves them.
GradeScoreValues == {0, 500, 995, 1000}

GradeInputs == [{GradeKeys[k] : k \in DOMAIN GradeKeys} -> GradeScoreValues]

GradeCall ==
    \E scores \in GradeInputs :
        /\ procs' = <<[op |-> "compute_overall_grade", scores |-> scores,
                       grade |-> compute_overall_grade(scores)]>>
        /\ UNCHANGED <<clock, factVars, scoreVars, challenges, lastOp>>

NextGrade == GradeCall

SpecGrade == InitStore /\ [][NextGrade]_vars

Grades == <<"F", "D", "C", "C+", "B", "B+", "A", "A+">>
GradeRank(g) == CHOOSE i \in DOMAIN Grades : Grades[i] = g

\* The mean of the five scores of a frame, times 50 (the scores are tenths).
MeanTimes50(frame) ==
    frame.scores.risk + frame.scores.discipline + frame.scores.strategy
        + frame.scores.psychology + frame.scores.consistency

\* C19: the grade of the mean of the five scores is A+ from 90, A from 80, B+
\* from 70, B from 60, C+ from 50, C from 40, D from 30 and F below, each cutoff
\* belonging to the higher grade; of two calls, the one with the larger mean
\* never gets the lower grade.
C19_GradeCutoffs ==
    [][procs' # << >> =>
          /\ procs'[1].grade =
                CASE MeanTimes50(procs'[1]) >= 90 * 50 -> "A+"
                  [] MeanTimes50(procs'[1]) \in (80 * 50)..(90 * 50 - 1) -> "A"
                  [] MeanTimes50(procs'[1]) \in (70 * 50)..(80 * 50 - 1) -> "B+"
                  [] MeanTimes50(procs'[1]) \in (60 * 50)..(70 * 50 - 1) -> "B"
                  [] MeanTimes50(procs'[1]) \in (50 * 50)..(60 * 50 - 1) -> "C+"
                  [] MeanTimes50(procs'[1]) \in (40 * 50)..(50 * 50 - 1) -> "C"
                  [] MeanTimes50(procs'[1]) \in (30 * 50)..(40 * 50 - 1) -> "D"
                  [] OTHER -> "F"
          /\ (procs # << >> /\ MeanTimes50(procs[1]) <= MeanTimes50(procs'[1]))
                 => GradeRank(procs[1].grade) <= GradeRank(procs'[1].grade)]_vars

\* A call whose five scores have a mean of exactly 90 has returned A+.
C19_Witness ==
    /\ procs # << >>
    /\ MeanTimes50(procs[1]) = 90 * 50
    /\ procs[1].grade = "A+"

(***************************************************************************)
(* server.py: reading the current scores.                                  *)
(***************************************************************************)
\* trade_count = sum(d.get("trade_count", 0) for d in daily)
ReadTradeCount(daily) == SeqSum([j \in DOMAIN daily |-> daily[j].trade_count])

\* active_days = sum(1 for d in daily if d.get("active_day", False))
ReadActiveDays(daily) == Cardinality({j \in DOMAIN daily : daily[j].active_day})

\* The "eligible" of the response; without a latest row the handler returns
\* {"scores": None, "eligible": False}.
ReadEligible(rows, now) ==
    /\ rows # {}
    /\ check_eligibility(ReadTradeCount(get_daily_scores(rows, 30, now)),
                         ReadActiveDays(get_daily_scores(rows, 30, now)))

\* GET /api/evaluation/scores: it writes nothing; lastOp keeps the response.
evaluation_get_scores ==
    /\ lastOp' = IF daily_scores = {} THEN "scores_none"
                 ELSE IF ReadEligible(daily_scores, clock) THEN "scores_eligible"
                 ELSE "scores_not_eligible"
    /\ UNCHANGED <<clock, factVars, scoreVars, challenges, procs>>

(***************************************************************************)
(* SpecElig: the scheduler's daily runs over an account with a few trades, *)
(* and reads of the current scores.                                        *)
(***************************************************************************)
MaxEligDay == 15
MaxEligTx == 2

EligScheduler == daily_score_scheduler(MaxEligDay)

EligTrade ==
    \E a \in AggAssets, action \in TradeActions, qty \in Quantities, price \in ChPrices :
        /\ Len(transactions) < MaxEligTx
        /\ db_execute_trade(a.symbol, a.type, action, qty, price)
        /\ lastOp' = "facts"
        /\ UNCHANGED <<clock, checklists, mentor_triggers, sentiment_cache,
                       scoreVars, challenges, procs>>

NextElig == scheduler_first_run \/ EligScheduler \/ EligTrade \/ evaluation_get_scores

SpecElig == InitAgg /\ [][NextElig]_vars

\* C20: the "eligible" flag of a read of the current scores is true exactly when
\* the transactions of the trailing 30 days number >= 25 or fall on >= 15
\* distinct days, which is the eligibility the aggregator computes from the
\* same state.
C20_ReadAgreesWithAggregator ==
    lastOp \in {"scores_eligible", "scores_not_eligible"} =>
        ((lastOp = "scores_eligible")
            = check_eligibility(Len(RecentTxns(clock)), ActiveDays(RecentTxns(clock))))

(***************************************************************************)
(* mentor_engine.py: the seven detectors.  An alert is                     *)
(*   [pattern_type, symbol (<< >> for None), message (the values that are  *)
(*    formatted into its text)].                                           *)
(***************************************************************************)
Hours(n) == (n * TicksPerDay) \div 24     \* timedelta(hours=n)

Alert(pattern_type, symbol, message) ==
    [pattern_type |-> pattern_type, symbol |-> symbol, message |-> message]

\* The keys of a dict filled in the order of s: first appearance.
RECURSIVE DistinctInOrder(_)
DistinctInOrder(s) ==
    IF s = << >> THEN << >>
    ELSE <<Head(s)>> \o SelectSeqOf(DistinctInOrder(Tail(s)), Range(s) \ {Head(s)})

\* symbol_txns.items(): the symbols in the order the transactions name them.
SymbolsOf(txs) == DistinctInOrder([i \in DOMAIN txs |-> txs[i].symbol])

\* One alert for each symbol of syms that is flagged, in the order of syms.
SymbolAlerts(pattern_type, syms, flagged) ==
    [k \in DOMAIN SelectSeqOf(syms, flagged) |->
        Alert(pattern_type, <<SelectSeqOf(syms, flagged)[k]>>,
              <<SelectSeqOf(syms, flagged)[k]>>)]

\* The alerts up to the "break" that follows the first one.
FirstOnly(alerts) == IF alerts = << >> THEN << >> ELSE <<Head(alerts)>>

\* "avg_price > 0 and buy_price > avg_price * 1.15", avg_price = total / n.
AboveAverage(buy_price, total, n) ==
    total > 0 /\ RLt(RMul(Rat(total, n), Rat(115, 100)), RInt(buy_price))

\* The body of "for sym, txns in symbol_txns.items()" of detect_fomo_buy.
FomoBuyOf(sym, txs, now) ==
    LET prices_30d == {i \in DOMAIN txs : txs[i].symbol = sym
                                            /\ Parseable(txs[i].timestamp)
                                            /\ txs[i].timestamp >= now - Days(30)}
        recent_buys == {i \in DOMAIN txs : txs[i].symbol = sym /\ txs[i].action = "buy"
                                             /\ Parseable(txs[i].timestamp)
                                             /\ txs[i].timestamp >= now - Hours(48)}
    IN  /\ ~(Cardinality(prices_30d) < 3 \/ recent_buys = {})
        /\ \E i \in recent_buys :
              AboveAverage(txs[i].price,
                           SeqSum([j \in DOMAIN txs |->
                                      IF j \in prices_30d THEN txs[j].price ELSE 0]),
                           Cardinality(prices_30d))

detect_fomo_buy(txs, now) ==
    SymbolAlerts("fomo_buy", SymbolsOf(txs),
                 {sym \in Range(SymbolsOf(txs)) : FomoBuyOf(sym, txs, now)})

\* loss_pct = ((sell_price - buy_price) / buy_price) * 100; loss_pct < -10
LossOver(sell_price, buy_price, pct) ==
    RLt(RMul(RDiv(RSub(sell_price, buy_price), buy_price), RInt(100)), RInt(0 - pct))

\* A sell of the trailing 7 days and a buy of the same symbol 0 < hours <= 48
\* before it, sold more than 10% below the buy.
PanicPair(sell, buy, now) ==
    /\ sell.action = "sell" /\ buy.action = "buy" /\ sell.symbol = buy.symbol
    /\ Parseable(sell.timestamp)
    /\ ~(sell.timestamp < now - Days(7))
    /\ Parseable(buy.timestamp)
    /\ ~(buy.price <= 0)
    /\ 0 < sell.timestamp - buy.timestamp
    /\ sell.timestamp - buy.timestamp <= Hours(48)
    /\ LossOver(RInt(sell.price), RInt(buy.price), 10)

\* The body of "for sym, txns in symbol_txns.items()" of detect_panic_sell:
\* the loops over the sells and buys of sym end at the first pair found.
PanicSellOf(sym, txs, now) ==
    \E i \in DOMAIN txs : \E j \in DOMAIN txs :
        txs[i].symbol = sym /\ PanicPair(txs[i], txs[j], now)

detect_panic_sell_FirstSymbolOnly(txs, now) ==
    FirstOnly(SymbolAlerts("panic_sell", SymbolsOf(txs),
                  {sym \in Range(SymbolsOf(txs)) : PanicSellOf(sym, txs, now)}))

\* The "break" after the for/else leaves the loop over the sells of one
\* symbol; the loop over the symbols goes on.
detect_panic_sell(txs, now) ==
    SymbolAlerts("panic_sell", SymbolsOf(txs),
                 {sym \in Range(SymbolsOf(txs)) : PanicSellOf(sym, txs, now)})

\* recent = [t for t in transactions if ts and ts >= day_ago]
RecentTrades(txs, now) ==
    {i \in DOMAIN txs : Parseable(txs[i].timestamp)
                           /\ txs[i].timestamp >= now - Hours(24)}

detect_overtrading_From5(txs, now) ==
    IF Cardinality(RecentTrades(txs, now)) >= 5
    THEN <<Alert("overtrading", << >>, <<Cardinality(RecentTrades(txs, now))>>)>>
    ELSE << >>

detect_overtrading(txs, now) ==
    IF Cardinality(RecentTrades(txs, now)) > 5
    THEN <<Alert("overtrading", << >>, <<Cardinality(RecentTrades(txs, now))>>)>>
    ELSE << >>

\* pct = (holding_value / total_value) * 100
PositionPct(h, total_value) == RMul(RDiv(PositionValue(h), total_value), RInt(100))

\* The shape shared by detect_over_concentration and detect_high_risk_position:
\* nothing when total_value <= 0, else one alert per holding with pct > limit.
HoldingAlerts(pattern_type, hs, bal, limit) ==
    IF RLe(TotalValue(hs, bal), RInt(0)) THEN << >>
    ELSE SymbolAlerts(pattern_type,
                      [k \in 1..Cardinality(hs) |-> SetToSeq(hs)[k].symbol],
                      {h.symbol : h \in {x \in hs :
                           RLt(RInt(limit), PositionPct(x, TotalValue(hs, bal)))}})

detect_over_concentration(hs, bal) == HoldingAlerts("over_concentration", hs, bal, 30)

detect_high_risk_position_Over35(hs, bal) == HoldingAlerts("high_risk_position", hs, bal, 35)

detect_high_risk_position(hs, bal) == HoldingAlerts("high_risk_position", hs, bal, 25)

\* get_holdings() returns no currentPrice: current_price is avg_price.
\* days_held is taken from the earliest buy, the one with the most days.
HoldingLoser(h, txs, now) ==
    /\ ~RLe(h.averagePrice, RInt(0))
    /\ LossOver(h.averagePrice, h.averagePrice, 20)
    /\ \E i \in DOMAIN txs :
          /\ txs[i].symbol = h.symbol /\ txs[i].action = "buy"
          /\ Parseable(txs[i].timestamp)
          /\ (now - txs[i].timestamp) \div TicksPerDay >= 14

detect_holding_losers(hs, txs, now) ==
    SymbolAlerts("holding_losers", [k \in 1..Cardinality(hs) |-> SetToSeq(hs)[k].symbol],
                 {h.symbol : h \in {x \in hs : HoldingLoser(x, txs, now)}})

\* get_cached_sentiment: the row of the symbol unless it has expired.
get_cached_sentiment(sym, now) ==
    {c \in sentiment_cache : c.symbol = sym /\ ~(now > c.expires_at)}

\* The symbols bought in the last 48 hours, newest buy first; one alert for
\* the first of them whose cached positive_pct is over 70, then "break".
detect_sentiment_fomo(txs, now) ==
    FirstOnly(SymbolAlerts("sentiment_fomo",
                  SymbolsOf(SelectSeqOf(txs, {t \in Range(txs) :
                      /\ t.action = "buy"
                      /\ Parseable(t.timestamp)
                      /\ t.timestamp >= now - Hours(48)})),
                  {c.symbol : c \in {x \in sentiment_cache :
                      x \in get_cached_sentiment(x.symbol, now) /\ x.positive_pct > 70}}))

run_all_checks(txs, hs, bal, now) ==
    detect_fomo_buy(txs, now) \o detect_panic_sell(txs, now)
        \o detect_overtrading(txs, now) \o detect_over_concentration(hs, bal)
        \o detect_holding_losers(hs, txs, now) \o detect_high_risk_position(hs, bal)
        \o detect_sentiment_fomo(txs, now)

(***************************************************************************)
(* mentor_engine.py: escalation from the trigger history.                  *)
(***************************************************************************)
\* pattern_counts.get(pt, 0)
PatternCount(trigger_history, pt) ==
    Cardinality({j \in DOMAIN trigger_history : trigger_history[j].pattern_type = pt})

EscalationLevel_From3(prior) ==
    IF prior = 0 THEN "first" ELSE IF prior < 3 THEN "recurring" ELSE "persistent"

\* The if / elif / else on prior.
EscalationLevel(prior) ==
    IF prior = 0 THEN "first" ELSE IF prior <= 3 THEN "recurring" ELSE "persistent"

\* {**alert, 'escalation_level': level, 'prior_count': prior}
EnrichAlert(alert, prior) ==
    [pattern_type |-> alert.pattern_type, symbol |-> alert.symbol,
     message |-> alert.message, escalation_level |-> EscalationLevel(prior),
     prior_count |-> prior]

ImprovedPattern_AlsoCurrent(count, pt, current_patterns) == count >= 3

\* "if count >= 3 and pt not in current_patterns"
ImprovedPattern(count, pt, current_patterns) == count >= 3 /\ pt \notin current_patterns

\* One note for each key of pattern_counts that passes the test; a note is
\* the pattern type and the count its text cites.
ImprovementNotes(alerts, trigger_history) ==
    LET pts == DistinctInOrder([j \in DOMAIN trigger_history |->
                                   trigger_history[j].pattern_type])
        improved == SelectSeqOf(pts,
                        {pt \in Range(pts) :
                            ImprovedPattern(PatternCount(trigger_history, pt), pt,
                                            {alerts[k].pattern_type : k \in DOMAIN alerts})})
    IN  [k \in DOMAIN improved |->
            [pattern_type |-> improved[k],
             count |-> PatternCount(trigger_history, improved[k])]]

\* Returns (enriched_alerts, improvement_notes).
enrich_alerts_with_history(alerts, trigger_history) ==
    [alerts |-> [k \in DOMAIN alerts |->
                    EnrichAlert(alerts[k],
                                PatternCount(trigger_history, alerts[k].pattern_type))],
     improvementNotes |-> ImprovementNotes(alerts, trigger_history)]

(***************************************************************************)
(* server.py: GET /api/mentor/analyze, the whole handler with the          *)
(* detectors.  procs keeps the response until the next request.            *)
(***************************************************************************)
\* "for alert in enriched_alerts: await add_mentor_trigger(...)"
RECURSIVE SaveTriggers(_, _, _, _)
SaveTriggers(triggers, alerts, k, now) ==
    IF k > Len(alerts) THEN triggers
    ELSE SaveTriggers(add_mentor_trigger(triggers, alerts[k].pattern_type, now),
                      alerts, k + 1, now)

AnalyzeResponse(now) ==
    enrich_alerts_with_history(run_all_checks(get_transactions, get_holdings, balance, now),
                               get_mentor_triggers_raw(30, now))

mentor_analyze_run_PersistFirst ==
    LET alerts == run_all_checks(get_transactions, get_holdings, balance, clock)
        saved == SaveTriggers(mentor_triggers,
                              [k \in DOMAIN alerts |->
                                  [pattern_type |-> alerts[k].pattern_type]],
                              1, clock)
    IN  /\ procs' = <<enrich_alerts_with_history(alerts,
                          SelectSeqOf(saved,
                              {t \in Range(saved) : t.created_at >= clock - Days(30)}))>>
        /\ mentor_triggers' = saved
        /\ lastOp' = "facts"
        /\ UNCHANGED <<clock, balance, holdings, transactions, checklists,
                       sentiment_cache, scoreVars, challenges>>

\* trigger_history is read before the loop that saves one trigger per alert.
mentor_analyze_run ==
    /\ procs' = <<AnalyzeResponse(clock)>>
    /\ mentor_triggers' = SaveTriggers(mentor_triggers, AnalyzeResponse(clock).alerts, 1, clock)
    /\ lastOp' = "facts"
    /\ UNCHANGED <<clock, balance, holdings, transactions, checklists,
                   sentiment_cache, scoreVars, challenges>>

(***************************************************************************)
(* SpecMentor: one symbol traded at one price, days passing, and analyze   *)
(* runs over the transactions of the last hours.                           *)
(***************************************************************************)
MaxMentorTx == 6
MaxMentorTick == 4

MentorAssets == {[symbol |-> "AAPL", type |-> "stock"]}
MentorPrices == {10000}

MentorTrade ==
    \E a \in MentorAssets, action \in TradeActions, qty \in Quantities, price \in MentorPrices :
        /\ Len(transactions) < MaxMentorTx
        /\ db_execute_trade(a.symbol, a.type, action, qty, price)
        /\ procs' = << >>
        /\ UNCHANGED <<clock, checklists, mentor_triggers, sentiment_cache,
                       scoreVars, challenges, lastOp>>

\* 24 hours pass.
MentorDay ==
    /\ clock + Hours(24) <= MaxMentorTick
    /\ clock' = clock + Hours(24)
    /\ procs' = << >>
    /\ UNCHANGED <<factVars, scoreVars, challenges, lastOp>>

MentorAnalyze ==
    /\ Len(mentor_triggers) < MaxTriggers
    /\ mentor_analyze_run

NextMentor == MentorTrade \/ MentorDay \/ MentorAnalyze

SpecMentor == InitStore /\ [][NextMentor]_vars

\* The alerts of pattern type pt in the response of an analyze run.
AlertsOfType(response, pt) ==
    {k \in DOMAIN response.alerts : response.alerts[k].pattern_type = pt}

\* C17: an analyze run returns exactly one overtrading alert, without a symbol
\* and with the count in its message, when more than 5 transactions lie in the
\* trailing 24 hours, the count being their number; with 5 or fewer it returns
\* none.
C17_OvertradingOver5 ==
    [][procs' # << >> =>
          IF Cardinality({i \in DOMAIN transactions :
                             transactions[i].timestamp >= clock - Hours(24)}) > 5
          THEN /\ Cardinality(AlertsOfType(procs'[1], "overtrading")) = 1
               /\ \A k \in AlertsOfType(procs'[1], "overtrading") :
                     /\ procs'[1].alerts[k].symbol = << >>
                     /\ procs'[1].alerts[k].message =
                            <<Cardinality({i \in DOMAIN transactions :
                                  transactions[i].timestamp >= clock - Hours(24)})>>
          ELSE AlertsOfType(procs'[1], "overtrading") = {}]_vars

\* A run over six transactions of the last 24 hours, buys and sells, has
\* returned the overtrading alert with count 6.
C17_Witness ==
    /\ procs # << >>
    /\ \E k \in AlertsOfType(procs[1], "overtrading") : procs[1].alerts[k].message = <<6>>
    /\ \E i \in DOMAIN transactions : transactions[i].action = "sell"
    /\ \E i \in DOMAIN transactions : transactions[i].timestamp < clock

(***************************************************************************)
(* SpecEscalate: analyze runs repeated over a position that is built up    *)
(* and sold again, so that the trigger history of a pattern grows.         *)
(***************************************************************************)
MaxEscTx == 5
MaxEscTriggers == 7

EscTrade ==
    \E a \in MentorAssets, action \in TradeActions, qty \in Quantities, price \in MentorPrices :
        /\ Len(transactions) < MaxEscTx
        /\ db_execute_trade(a.symbol, a.type, action, qty, price)
        /\ procs' = << >>
        /\ UNCHANGED <<clock, checklists, mentor_triggers, sentiment_cache,
                       scoreVars, challenges, lastOp>>

EscAnalyze ==
    /\ Len(mentor_triggers) < MaxEscTriggers
    /\ mentor_analyze_run

NextEsc == EscTrade \/ EscAnalyze

SpecEscalate == InitStore /\ [][NextEsc]_vars

\* The trigger history that an analyze run reads: the last 30 days.
TriggerHistory == get_mentor_triggers_raw(30, clock)

\* C14: every alert of a run, of pattern type P with N triggers of type P in
\* the trailing-30-day history read by the run, has prior_count = N and
\* escalation_level 'first' iff N = 0, 'recurring' iff 1 <= N <= 3,
\* 'persistent' iff N > 3.
C14_EscalationLevels ==
    [][procs' # << >> =>
          \A k \in DOMAIN procs'[1].alerts :
              /\ procs'[1].alerts[k].prior_count =
                     PatternCount(TriggerHistory, procs'[1].alerts[k].pattern_type)
              /\ (procs'[1].alerts[k].escalation_level = "first")
                     = (procs'[1].alerts[k].prior_count = 0)
              /\ (procs'[1].alerts[k].escalation_level = "recurring")
                     = (procs'[1].alerts[k].prior_count \in 1..3)
              /\ (procs'[1].alerts[k].escalation_level = "persistent")
                     = (procs'[1].alerts[k].prior_count > 3)]_vars

\* One response holds a persistent alert with 4 prior triggers, which was
\* recurring in the runs before, and a first alert of another pattern.
C14_Witness ==
    /\ procs # << >>
    /\ \E k \in DOMAIN procs[1].alerts :
          /\ procs[1].alerts[k].prior_count = 4
          /\ procs[1].alerts[k].escalation_level = "persistent"
    /\ \E k \in DOMAIN procs[1].alerts : procs[1].alerts[k].escalation_level = "first"

\* C15: a run emits an improvement note for a pattern type exactly when that
\* type has >= 3 triggers in the history it read and none of its alerts is of
\* that type; one note for each such type.
C15_ImprovementNotes ==
    [][procs' # << >> =>
          \A pt \in {TriggerHistory[j].pattern_type : j \in DOMAIN TriggerHistory}
                      \cup {procs'[1].improvementNotes[k].pattern_type :
                               k \in DOMAIN procs'[1].improvementNotes} :
              Cardinality({k \in DOMAIN procs'[1].improvementNotes :
                              procs'[1].improvementNotes[k].pattern_type = pt})
                  = IF /\ PatternCount(TriggerHistory, pt) >= 3
                       /\ AlertsOfType(procs'[1], pt) = {}
                    THEN 1 ELSE 0]_vars

\* A run has returned a note for a pattern with 3 or more triggers and none for
\* another such pattern that is among its alerts.
C15_Witness ==
    /\ procs # << >>
    /\ Len(procs[1].improvementNotes) = 1
    /\ \E pt \in {mentor_triggers[j].pattern_type : j \in DOMAIN mentor_triggers} :
          /\ PatternCount(mentor_triggers, pt) >= 4
          /\ AlertsOfType(procs[1], pt) # {}

LevelRank(level) ==
    CASE level = "first" -> 1 [] level = "recurring" -> 2 [] level = "persistent" -> 3

\* The triggers of one pattern type on record within the trailing 30 days.
PersistedBefore(pt) ==
    {j \in DOMAIN mentor_triggers :
        /\ mentor_triggers[j].pattern_type = pt
        /\ mentor_triggers[j].created_at >= clock - Days(30)}

\* C27: in an analyze run prior_count of an alert of type P is the number of
\* triggers of type P that earlier runs persisted within the trailing 30 days,
\* the run's own alerts not counted; the run then appends exactly one trigger
\* per returned alert; and from one run to the next over an unchanged
\* portfolio the level of a pattern never moves backwards.
C27_HistoryReadBeforePersist ==
    [][procs' # << >> =>
          /\ Len(mentor_triggers') = Len(mentor_triggers) + Len(procs'[1].alerts)
          /\ SubSeq(mentor_triggers', 1, Len(mentor_triggers)) = mentor_triggers
          /\ \A k \in DOMAIN procs'[1].alerts :
                /\ mentor_triggers'[Len(mentor_triggers) + k]
                       = [pattern_type |-> procs'[1].alerts[k].pattern_type,
                          created_at |-> clock]
                /\ procs'[1].alerts[k].prior_count
                       = Cardinality(PersistedBefore(procs'[1].alerts[k].pattern_type))
          /\ procs # << >> =>
                \A k \in DOMAIN procs'[1].alerts, j \in DOMAIN procs[1].alerts :
                    procs'[1].alerts[k].pattern_type = procs[1].alerts[j].pattern_type
                        => /\ LevelRank(procs'[1].alerts[k].escalation_level)
                                 >= LevelRank(procs[1].alerts[j].escalation_level)
                           /\ procs'[1].alerts[k].prior_count
                                 > procs[1].alerts[j].prior_count]_vars

\* Three runs in a row over the same portfolio: the last one returned an alert
\* as recurring with 2 prior triggers, and its own trigger is on record as the
\* third of its type.
C27_Witness ==
    /\ procs # << >>
    /\ \E k \in DOMAIN procs[1].alerts :
          /\ procs[1].alerts[k].prior_count = 2
          /\ procs[1].alerts[k].escalation_level = "recurring"
          /\ PatternCount(mentor_triggers, procs[1].alerts[k].pattern_type) = 3
          /\ mentor_triggers[Len(mentor_triggers) - Len(procs[1].alerts) + k].pattern_type
                 = procs[1].alerts[k].pattern_type

(***************************************************************************)
(* SpecDetect: two symbols bought and sold at two prices, one accepted     *)
(* trade every 12 hours, and analyze runs over the portfolio.              *)
(***************************************************************************)
MaxDetTx == 4

\* A trade request, 12 hours after the request before it.
DetTrade ==
    \E a \in ChAssets, action \in TradeActions, qty \in Quantities, price \in Prices :
        /\ Len(transactions) < MaxDetTx
        /\ ~TradeRejected(a.symbol, a.type, action, qty, price)
        /\ db_execute_trade(a.symbol, a.type, action, qty, price)
        /\ clock' = clock + Hours(12)
        /\ procs' = << >>
        /\ UNCHANGED <<checklists, mentor_triggers, sentiment_cache,
                       scoreVars, challenges, lastOp>>

DetAnalyze ==
    /\ Len(mentor_triggers) < MaxTriggers
    /\ mentor_analyze_run

NextDetect == DetTrade \/ DetAnalyze

SpecDetect == InitStore /\ [][NextDetect]_vars

\* The alerts of pattern type pt for symbol sym in a response.
AlertsFor(response, pt, sym) ==
    {k \in AlertsOfType(response, pt) : response.alerts[k].symbol = <<sym>>}

\* A sell of sym of the trailing 7 days priced more than 10% below a buy of
\* sym made within the 48 hours before it.
QualifyingPair(sym) ==
    \E i \in DOMAIN transactions : \E j \in DOMAIN transactions :
        /\ transactions[i].symbol = sym /\ transactions[j].symbol = sym
        /\ transactions[i].action = "sell" /\ transactions[j].action = "buy"
        /\ transactions[i].timestamp >= clock - Days(7)
        /\ transactions[j].timestamp < transactions[i].timestamp
        /\ transactions[i].timestamp - transactions[j].timestamp <= Hours(48)
        /\ 10 * transactions[i].price < 9 * transactions[j].price

\* C16, as the claim states it: a run of the panic_sell detector returns at
\* most one alert in total, however many symbols have a qualifying pair.
C16_OnePanicAlertInTotal ==
    procs # << >> => Cardinality(AlertsOfType(procs[1], "panic_sell")) <= 1

\* C16, amended: a run of the panic_sell detector returns one alert for each
\* symbol that has a qualifying pair and none for the other symbols; the
\* detection stops at the first qualifying pair of a symbol, not of the run.
C16_OnePanicAlertPerSymbol ==
    procs # << >> =>
        \A a \in Assets :
            Cardinality(AlertsFor(procs[1], "panic_sell", a.symbol))
                = IF QualifyingPair(a.symbol) THEN 1 ELSE 0

\* A run over two symbols, each with more than one qualifying pair or not, has
\* returned one panic_sell alert for each of them.
C16_Witness ==
    /\ procs # << >>
    /\ Cardinality(AlertsOfType(procs[1], "panic_sell")) = 2
    /\ AlertsFor(procs[1], "panic_sell", "AAPL") # {}
    /\ AlertsFor(procs[1], "panic_sell", "BTC") # {}

\* C18: with a positive total value (balance plus holdings), one run gives a
\* holding worth more than 30% of it both an over_concentration and a
\* high_risk_position alert, a holding worth more than 25% and at most 30% a
\* high_risk_position alert only, and a holding worth at most 25% neither.
C18_ConcentrationImpliesHighRisk ==
    (procs # << >> /\ RLt(RInt(0), TotalValue(holdings, balance))) =>
        \A h \in holdings :
            /\ Cardinality(AlertsFor(procs[1], "over_concentration", h.symbol))
                   = IF RLt(RMul(RInt(30), TotalValue(holdings, balance)),
                            RMul(RInt(100), PositionValue(h))) THEN 1 ELSE 0
            /\ Cardinality(AlertsFor(procs[1], "high_risk_position", h.symbol))
                   = IF RLt(RMul(RInt(25), TotalValue(holdings, balance)),
                            RMul(RInt(100), PositionValue(h))) THEN 1 ELSE 0

\* One run over a holding above 30%, with both alerts, and a holding between
\* 25% and 30%, with the high_risk_position alert only.
C18_Witness ==
    /\ procs # << >>
    /\ \E h \in holdings :
          /\ AlertsFor(procs[1], "over_concentration", h.symbol) # {}
          /\ AlertsFor(procs[1], "high_risk_position", h.symbol) # {}
    /\ \E h \in holdings :
          /\ AlertsFor(procs[1], "over_concentration", h.symbol) = {}
          /\ AlertsFor(procs[1], "high_risk_position", h.symbol) # {}

(***************************************************************************)
(* server.py: POST /api/db/portfolio/trade, requests processed one at a    *)
(* time from the default portfolio.  TradeRequest declares quantity and    *)
(* price as float with no validator, so a request may carry any sign.      *)
(***************************************************************************)
MaxTradeTx == 3

RequestActions == {"buy", "sell", "hold"}
RequestQuantities == {0, 1, 2}
RequestPrices == {0 - 150000, 0, 50000}

\* The request and the status of its response: 400 on HTTPException.
TradeResponse(a, action, qty, price) ==
    [op |-> "db_execute_trade",
     request |-> [symbol |-> a.symbol, type |-> a.type, action |-> action,
                  quantity |-> qty, price |-> price],
     status |-> IF TradeRejected(a.symbol, a.type, action, qty, price)
                THEN 400 ELSE 200]

TradeRequest ==
    \E a \in MentorAssets, action \in RequestActions,
       qty \in RequestQuantities, price \in RequestPrices :
        /\ Len(transactions) < MaxTradeTx
        /\ db_execute_trade(a.symbol, a.type, action, qty, price)
        /\ procs' = <<TradeResponse(a, action, qty, price)>>
        /\ UNCHANGED <<clock, checklists, mentor_triggers, sentiment_cache,
                       scoreVars, challenges, lastOp>>

NextTrade == TradeRequest

SpecTrade == InitStore /\ [][NextTrade]_vars

\* The holding of the requested asset before the request, if any.
HeldBefore(req) == ExistingHolding(holdings, req.symbol, req.type)

\* The five rejection conditions, read off the request and the state before it.
MustBeRejected(req) ==
    \/ req.quantity <= 0
    \/ req.action = "buy" /\ req.quantity * req.price > balance
    \/ req.action = "sell" /\ HeldBefore(req) = {}
    \/ req.action = "sell" /\ \E h \in HeldBefore(req) : req.quantity > h.quantity
    \/ req.action \notin {"buy", "sell"}

\* C28: a trade request with quantity <= 0, a buy whose total exceeds the
\* balance, a sell of an asset not held, a sell of more than the held quantity,
\* or an action other than buy/sell is answered 400 and leaves the balance,
\* every holding and the transaction log exactly as they were.
C28_RejectedTradeChangesNothing ==
    [][(procs' # << >> /\ MustBeRejected(procs'[1].request))
          => /\ procs'[1].status = 400
             /\ UNCHANGED <<balance, holdings, transactions>>]_vars

\* A sell of more than the held quantity was rejected with a trade on record.
C28_Witness ==
    /\ procs # << >>
    /\ procs[1].status = 400
    /\ procs[1].request.action = "sell"
    /\ \E h \in HeldBefore(procs[1].request) : h.quantity < procs[1].request.quantity
    /\ transactions # << >>

\* C29: after any sequence of trade requests from the default portfolio the
\* balance is never negative, no holding is stored with quantity <= 0, and
\* every transaction on record has quantity > 0 and price > 0.
C29_StoreStaysWellFormed ==
    /\ balance >= 0
    /\ \A h \in holdings : h.quantity > 0
    /\ \A i \in DOMAIN transactions :
          transactions[i].quantity > 0 /\ transactions[i].price > 0

(***************************************************************************)
(* server.py: two POST /api/db/portfolio/trade requests on the event loop. *)
(* The handler gives up control at each await; every database function     *)
(* opens its own connection and commits on its own, and the handler holds  *)
(* no lock and no transaction across them.                                 *)
(***************************************************************************)
ConcQuantities == {1, 2}

ConcRequests ==
    {[symbol |-> a.symbol, type |-> a.type, action |-> action,
      quantity |-> qty, price |-> price] :
        a \in MentorAssets, action \in TradeActions,
        qty \in ConcQuantities, price \in ChPrices}

\* The checks made on the portfolio and the holdings the handler has read.
RejectedOn(bal, hs, req) ==
    LET existing == ExistingHolding(hs, req.symbol, req.type)
    IN  \/ req.action = "buy" /\ req.quantity * req.price > bal
        \/ req.action = "sell" /\ existing = {}
        \/ req.action = "sell" /\ existing # {}
             /\ (CHOOSE h \in existing : TRUE).quantity < req.quantity
        \/ req.action \notin {"buy", "sell"}

\* new_balance, from the balance the handler has read.
NewBalance(bal, req) ==
    IF req.action = "buy" THEN bal - req.quantity * req.price
                          ELSE bal + req.quantity * req.price

\* The write to the holdings table: its values come from the holdings the
\* handler has read (hs), its effect lands on the table as it is now.
HoldingWrite(table, hs, req) ==
    LET existing == ExistingHolding(hs, req.symbol, req.type)
        ex == CHOOSE h \in existing : TRUE
    IN  IF req.action = "buy"
        THEN IF existing # {}
             THEN upsert_holding(table, req.symbol, req.type,
                      ex.quantity + req.quantity,
                      RDiv(RAdd(RMul(RInt(ex.quantity), ex.averagePrice),
                                RInt(req.quantity * req.price)),
                           RInt(ex.quantity + req.quantity)))
             ELSE upsert_holding(table, req.symbol, req.type, req.quantity,
                                 RInt(req.price))
        ELSE IF ex.quantity = req.quantity
             THEN delete_holding(table, req.symbol, req.type)
             ELSE update_holding_quantity(table, req.symbol, req.type,
                      ex.quantity - req.quantity, ex.averagePrice)

\* total = quantity * price; if quantity <= 0: raise.
TStart(p) ==
    \E req \in ConcRequests :
        /\ procs[p].pc = "idle"
        /\ procs' = [procs EXCEPT ![p] =
                        [pc |-> IF req.quantity <= 0 THEN "done" ELSE "t_port",
                         req |-> req, bal |-> 0, hs |-> {},
                         status |-> IF req.quantity <= 0 THEN 400 ELSE 0]]
        /\ UNCHANGED <<clock, factVars, scoreVars, challenges, lastOp>>

\* portfolio = await get_portfolio()
TPort(p) ==
    /\ procs[p].pc = "t_port"
    /\ procs' = [procs EXCEPT ![p].bal = balance, ![p].pc = "t_hold"]
    /\ UNCHANGED <<clock, factVars, scoreVars, challenges, lastOp>>

\* holdings = await get_holdings()
THold(p) ==
    /\ procs[p].pc = "t_hold"
    /\ procs' = [procs EXCEPT ![p].hs = get_holdings, ![p].pc = "t_write"]
    /\ UNCHANGED <<clock, factVars, scoreVars, challenges, lastOp>>

\* The checks of the branch, then await upsert_holding / delete_holding /
\* update_holding_quantity.
TWrite(p) ==
    LET me == procs[p]
    IN  /\ me.pc = "t_write"
        /\ IF RejectedOn(me.bal, me.hs, me.req)
           THEN /\ procs' = [procs EXCEPT ![p].pc = "done", ![p].status = 400]
                /\ UNCHANGED holdings
           ELSE /\ holdings' = HoldingWrite(holdings, me.hs, me.req)
                /\ procs' = [procs EXCEPT ![p].pc = "t_save"]
        /\ UNCHANGED <<clock, balance, transactions, checklists, mentor_triggers,
                       sentiment_cache, scoreVars, challenges, lastOp>>

\* await save_portfolio(new_balance)
TSave(p) ==
    /\ procs[p].pc = "t_save"
    /\ balance' = NewBalance(procs[p].bal, procs[p].req)
    /\ procs' = [procs EXCEPT ![p].pc = "t_tx"]
    /\ UNCHANGED <<clock, holdings, transactions, checklists, mentor_triggers,
                   sentiment_cache, scoreVars, challenges, lastOp>>

\* await add_transaction(...); return {"success": True, ...}
TTx(p) ==
    LET req == procs[p].req
    IN  /\ procs[p].pc = "t_tx"
        /\ transactions' =
               add_transaction(transactions, req.symbol, req.type, req.action,
                               req.quantity, req.price,
                               req.quantity * req.price, clock)
        /\ procs' = [procs EXCEPT ![p].pc = "done", ![p].status = 200]
        /\ UNCHANGED <<clock, balance, holdings, checklists, mentor_triggers,
                       sentiment_cache, scoreVars, challenges, lastOp>>

TStep(p) == TStart(p) \/ TPort(p) \/ THold(p) \/ TWrite(p) \/ TSave(p) \/ TTx(p)

NextTradeConc == \E p \in Procs : TStep(p)

SpecTradeConc == InitChConc /\ [][NextTradeConc]_vars

\* The store after one request handled with nothing in between.
TradeAlone(st, req, now) ==
    IF req.quantity <= 0 \/ RejectedOn(st.balance, st.holdings, req)
    THEN st
    ELSE [balance |-> NewBalance(st.balance, req),
          holdings |-> HoldingWrite(st.holdings, st.holdings, req),
          transactions |->
              add_transaction(st.transactions, req.symbol, req.type, req.action,
                              req.quantity, req.price,
                              req.quantity * req.price, now)]

DefaultStore ==
    [balance |-> DEFAULT_BALANCE, holdings |-> {}, transactions |-> << >>]

CurrentStore ==
    [balance |-> balance, holdings |-> holdings, transactions |-> transactions]

\* The handler as one step agrees with the handler taken alone.
TradeAloneIsTheHandler ==
    [][procs' # << >> =>
          [balance |-> balance', holdings |-> holdings',
           transactions |-> transactions']
              = TradeAlone(CurrentStore, procs'[1].request, clock)]_vars

\* C23: when two trade requests have both returned, the balance, the holdings
\* and the transaction log are those of the two trades executed one after
\* the other in some order.
C23_TradesSerializable ==
    (\A p \in Procs : procs[p].pc = "done")
        => \E p \in Procs, q \in Procs :
              /\ p # q
              /\ CurrentStore =
                     TradeAlone(TradeAlone(DefaultStore, procs[p].req, clock),
                                procs[q].req, clock)

(***************************************************************************)
(* scoring_engine.py: compute_psychology_score over a window of triggers   *)
(* that grows by one trigger at a time.                                    *)
(***************************************************************************)
MaxPsychTriggers == 7

PsychPatterns == {"fomo_buy", "panic_sell", "overtrading", "sentiment_fomo"}

\* One more trigger in the window.
PsychTrigger ==
    \E pattern_type \in PsychPatterns :
        /\ Len(mentor_triggers) < MaxPsychTriggers
        /\ mentor_triggers' = add_mentor_trigger(mentor_triggers, pattern_type, clock)
        /\ procs' = << >>
        /\ UNCHANGED <<clock, balance, holdings, transactions, checklists,
                       sentiment_cache, scoreVars, challenges, lastOp>>

\* compute_psychology_score(mentor_triggers) on the window of the last 30 days.
PsychScore ==
    /\ procs' = <<[op |-> "compute_psychology_score",
                   triggers |-> get_mentor_triggers_raw(30, clock),
                   score |-> compute_psychology_score(get_mentor_triggers_raw(30, clock))]>>
    /\ UNCHANGED <<clock, factVars, scoreVars, challenges, lastOp>>

NextPsych == PsychTrigger \/ PsychScore

SpecPsych == InitStore /\ [][NextPsych]_vars

\* The deduction of one trigger.
StatedDeduction(t) ==
    IF t.pattern_type = "fomo_buy" THEN 10
    ELSE IF t.pattern_type = "panic_sell" THEN 15
    ELSE IF t.pattern_type = "overtrading" THEN 10
    ELSE 5

RECURSIVE StatedTotal(_)
StatedTotal(triggers) ==
    IF triggers = << >> THEN 0
    ELSE StatedDeduction(Head(triggers)) + StatedTotal(Tail(triggers))

\* C26: the psychology score is max(0, 100 - sum of the deductions of every
\* trigger in the window), 10 for fomo_buy, 15 for panic_sell, 10 for
\* overtrading and 5 for any other type, each trigger counted; one more
\* trigger never raises the score, and lowers it by exactly its deduction as
\* long as the result stays above 0.
C26_PsychologyScore ==
    [][/\ procs' # << >> =>
             procs'[1].score = RInt(Max(0, 100 - StatedTotal(procs'[1].triggers)))
       /\ Len(mentor_triggers') = Len(mentor_triggers) + 1 =>
             LET before == compute_psychology_score(mentor_triggers)
                 after == compute_psychology_score(mentor_triggers')
                 lowered == RSub(before,
                                 RInt(StatedDeduction(
                                          mentor_triggers'[Len(mentor_triggers')])))
             IN  /\ RLe(after, before)
                 /\ RLe(RInt(0), after)
                 /\ RLt(RInt(0), lowered) => after = lowered]_vars

\* The score of a full window with a repeated pattern type and a trigger of a
\* type outside the table, above 0.
C26_Witness ==
    /\ procs # << >>
    /\ Len(procs[1].triggers) = MaxPsychTriggers
    /\ procs[1].score = RInt(100 - StatedTotal(procs[1].triggers))
    /\ RLt(RInt(0), procs[1].score)
    /\ \E i, j, k \in DOMAIN procs[1].triggers :
          /\ i # j
          /\ procs[1].triggers[i].pattern_type = "fomo_buy"
          /\ procs[1].triggers[j].pattern_type = "fomo_buy"
          /\ procs[1].triggers[k].pattern_type = "sentiment_fomo"

\* The deductions of a window have passed 100 and its score is 0.
PsychologyScoreClamped ==
    /\ procs # << >>
    /\ StatedTotal(procs[1].triggers) > 100
    /\ procs[1].score = RInt(0)

(***************************************************************************)
(* SpecNeutral: buys, sentiment lookups that fill the cache, and the       *)
(* challenge handlers.                                                     *)
(***************************************************************************)
MaxNeutralTx == 2

\* Classification results of get_sentiment for a symbol with articles.
SentimentResults ==
    {[mood |-> "neutral", positive_pct |-> 20, article_count |-> 3],
     [mood |-> "positive", positive_pct |-> 80, article_count |-> 3]}

\* INSERT ... ON CONFLICT(symbol) DO UPDATE; 2h TTL for an empty result,
\* 24h otherwise.
save_sentiment_cache(rows, sym, data, short_ttl, now) ==
    {r \in rows : r.symbol # sym}
        \cup {[symbol |-> sym, mood |-> data.mood, positive_pct |-> data.positive_pct,
               expires_at |-> now + Hours(IF short_ttl THEN 2 ELSE 24)]}

\* GET /api/sentiment: a cache hit is returned as it is; on a miss the fresh
\* result is cached.
sentiment_get(sym, result) ==
    /\ sentiment_cache' =
           IF get_cached_sentiment(sym, clock) # {}
           THEN sentiment_cache
           ELSE save_sentiment_cache(sentiment_cache, sym, result,
                                     result.article_count = 0, clock)
    /\ lastOp' = "facts"
    /\ UNCHANGED <<clock, balance, holdings, transactions, checklists,
                   mentor_triggers, scoreVars, challenges, procs>>

NeutralSentiment ==
    \E a \in ChAssets, result \in SentimentResults : sentiment_get(a.symbol, result)

NeutralTrade ==
    \E a \in ChAssets, action \in TradeActions, qty \in Quantities, price \in ChPrices :
        /\ Len(transactions) < MaxNeutralTx
        /\ db_execute_trade(a.symbol, a.type, action, qty, price)
        /\ lastOp' = "facts"
        /\ UNCHANGED <<clock, checklists, mentor_triggers, sentiment_cache,
                       scoreVars, challenges, procs>>

NextNeutral == NeutralSentiment \/ NeutralTrade \/ ChRefresh \/ ChRead

SpecNeutral == InitStore /\ [][NextNeutral]_vars

\* The distinct symbols bought in the trailing 30 days whose cached sentiment
\* mood is 'neutral'.
NeutralBought ==
    {sym \in {transactions[i].symbol : i \in DOMAIN transactions} :
        /\ \E i \in DOMAIN transactions :
              /\ transactions[i].symbol = sym
              /\ transactions[i].action = "buy"
              /\ transactions[i].timestamp >= clock - Days(30)
        /\ \E c \in get_cached_sentiment(sym, clock) : c.mood = "neutral"}

\* C24: the neutral_trader value that a refresh computes and stores is
\* min(3, number of distinct symbols bought in the trailing 30 days whose
\* cached sentiment mood is 'neutral').
C24_NeutralTraderValue ==
    [][lastOp' \in {"refresh", "refresh_raised"} =>
          \A r \in ActiveOfType(challenges, "neutral_trader") :
              \E r2 \in challenges' :
                  /\ r2.id = r.id
                  /\ r2.currentValue = RInt(Min(3, Cardinality(NeutralBought)))]_vars

(***************************************************************************)
(* server.py: _daily_score_scheduler in steps.  procs holds the one        *)
(* scheduler task: its position (pc), the instant its sleep ends (wake),   *)
(* and the numbers of aggregator calls made (runs) and failed (failed).    *)
(* A call fails when one of its database calls raises: before the          *)
(* DailyScore upsert, or after it and before the badges are written.       *)
(***************************************************************************)
MaxSchedDay == 3

FailurePoints == {"before_upsert", "before_badges"}

InitSched ==
    /\ clock = 0
    /\ balance = DEFAULT_BALANCE
    /\ holdings = {}
    /\ transactions = << >>
    /\ checklists = << >>
    /\ mentor_triggers = << >>
    /\ sentiment_cache = {}
    /\ daily_scores = {}
    /\ badges = {}
    /\ monthly_reports = << >>
    /\ challenges = {}
    /\ procs = <<[pc |-> "run", wake |-> 0, runs |-> 0, failed |-> 0]>>
    /\ lastOp = "init"

\* _compute_daily_scores_internal raising at one of its awaits: the writes
\* committed before that point stay.
AggregateRaises(point, now) ==
    /\ lastOp' = "aggregate_raised"
    /\ UNCHANGED <<badges, monthly_reports>>
    /\ daily_scores' =
           IF point = "before_upsert" THEN daily_scores
           ELSE upsert_daily_score(daily_scores, DateOf(now),
                    AggregatorScores(get_daily_scores(daily_scores, 30, now), now), now)

\* tomorrow = (now + timedelta(days=1)).replace(hour=0, minute=5, ...)
NextWake(now) == Days(DateOf(now) + 1)

SchedInvoke_Unhandled ==
    /\ procs[1].pc = "run"
    /\ \/ \E point \in FailurePoints :
             /\ AggregateRaises(point, clock)
             /\ procs' = <<[procs[1] EXCEPT !.pc = "dead", !.runs = @ + 1,
                                            !.failed = @ + 1]>>
       \/ /\ Aggregate(clock)
          /\ procs' = <<[procs[1] EXCEPT !.pc = "sleep", !.wake = NextWake(clock),
                                         !.runs = @ + 1]>>
    /\ UNCHANGED <<clock, factVars, challenges>>

\* One iteration of "while True": try: await _compute_daily_scores_internal()
\* except Exception: print(...); then the sleep until tomorrow 00:05 begins.
SchedInvoke ==
    /\ procs[1].pc = "run"
    /\ \/ \E point \in FailurePoints :
             /\ AggregateRaises(point, clock)
             /\ procs' = <<[procs[1] EXCEPT !.pc = "sleep", !.wake = NextWake(clock),
                                            !.runs = @ + 1, !.failed = @ + 1]>>
       \/ /\ Aggregate(clock)
          /\ procs' = <<[procs[1] EXCEPT !.pc = "sleep", !.wake = NextWake(clock),
                                         !.runs = @ + 1]>>
    /\ UNCHANGED <<clock, factVars, challenges>>

\* await asyncio.sleep(sleep_seconds) returns once the wake instant is reached.
SchedWake ==
    /\ procs[1].pc = "sleep"
    /\ clock >= procs[1].wake
    /\ procs' = <<[procs[1] EXCEPT !.pc = "run"]>>
    /\ UNCHANGED <<clock, factVars, scoreVars, challenges, lastOp>>

\* Time passes, half a day at a time.
SchedTime ==
    /\ clock < Days(MaxSchedDay)
    /\ clock' = clock + 1
    /\ UNCHANGED <<factVars, scoreVars, challenges, procs, lastOp>>

NextSched == SchedInvoke \/ SchedWake \/ SchedTime

\* Time goes on, a sleep whose instant has come returns, and the event loop
\* runs a task that is ready.
SpecSched ==
    /\ InitSched
    /\ [][NextSched]_vars
    /\ WF_vars(SchedTime)
    /\ WF_vars(SchedWake)
    /\ WF_vars(SchedInvoke)

\* C30: after an aggregator run of the scheduler that raised, the scheduler
\* sleeps until the next day and calls the aggregator again: a later run is
\* always eventually attempted (on every day the model reaches).
C30_FailedRunIsFollowedByARun ==
    \A n \in 1..(MaxSchedDay + 1) :
        (/\ lastOp = "aggregate_raised"
         /\ procs[1].runs = n
         /\ procs[1].wake <= Days(MaxSchedDay))
            ~> (procs[1].runs > n)

\* A run raised before its upsert, so its day has no row, and the run of the
\* next day was made and wrote its row.
C30_Witness ==
    /\ procs[1].failed >= 1
    /\ procs[1].runs >= 2
    /\ lastOp = "aggregate_insert"
    /\ \E d \in 0..MaxSchedDay :
          /\ d < DateOf(clock)
          /\ ~\E r \in daily_scores : r.date = d
    /\ \E r \in daily_scores : r.date = DateOf(clock)

(***************************************************************************)
(* server.py: POST /api/evaluation/report.  A row of monthly_reports is    *)
(*   [period_start, period_end, risk, discipline, strategy, psychology,    *)
(*    consistency (averages, in tenths), grade, best_trade, worst_trade,   *)
(*    patterns, summary, created_at].                                      *)
(* The narrative generator is an input: not configured ("unavailable"),    *)
(* its call raises ("failed"), or it returns a text ("generated").         *)
(***************************************************************************)
MaxReportDay == 2
MaxReports == 1

NarrativeOutcomes == {"unavailable", "failed", "generated"}

\* f"Overall grade: {grade}. Keep practicing to improve your trading skills."
TemplateSummary(grade) == [kind |-> "template", grade |-> grade]

generate_report_summary_NoFallback(grade, outcome) ==
    IF outcome = "unavailable" THEN TemplateSummary(grade)
    ELSE IF outcome = "failed" THEN [kind |-> "error"]
    ELSE [kind |-> "narrative"]

\* The early return without Gemini, the except branch, or response.text.
generate_report_summary(grade, outcome) ==
    IF outcome = "unavailable" THEN TemplateSummary(grade)
    ELSE IF outcome = "failed" THEN TemplateSummary(grade)
    ELSE [kind |-> "narrative"]

\* round(sum(vals) / len(vals), 1) if vals else 0, vals the scores > 0.
ReportAverage(daily, key) ==
    LET vals == Positive([j \in DOMAIN daily |-> daily[j][key]])
    IN  IF vals = << >> THEN 0
        ELSE RoundTenths(Rat(SeqSum(vals), 10 * Len(vals)))

ReportAverages(daily) ==
    [risk |-> ReportAverage(daily, "risk_score"),
     discipline |-> ReportAverage(daily, "discipline_score"),
     strategy |-> ReportAverage(daily, "strategy_score"),
     psychology |-> ReportAverage(daily, "psychology_score"),
     consistency |-> ReportAverage(daily, "consistency_score")]

\* sorted(sells, key=total): the first of the lowest and the last of the
\* highest totals, as optionals.
WorstTrade(sells) ==
    IF sells = << >> THEN << >>
    ELSE <<sells[CHOOSE i \in DOMAIN sells :
                     \A j \in DOMAIN sells :
                         \/ sells[i].total < sells[j].total
                         \/ sells[i].total = sells[j].total /\ i <= j]>>

BestTrade(sells) ==
    IF sells = << >> THEN << >>
    ELSE <<sells[CHOOSE i \in DOMAIN sells :
                     \A j \in DOMAIN sells :
                         \/ sells[i].total > sells[j].total
                         \/ sells[i].total = sells[j].total /\ i >= j]>>

ReportRow(daily, sells, triggers, outcome, now) ==
    [period_start |-> DateOf(now - Days(30)), period_end |-> DateOf(now),
     risk |-> ReportAverages(daily).risk,
     discipline |-> ReportAverages(daily).discipline,
     strategy |-> ReportAverages(daily).strategy,
     psychology |-> ReportAverages(daily).psychology,
     consistency |-> ReportAverages(daily).consistency,
     grade |-> compute_overall_grade(ReportAverages(daily)),
     best_trade |-> BestTrade(sells), worst_trade |-> WorstTrade(sells),
     patterns |-> {triggers[j].pattern_type : j \in DOMAIN triggers},
     summary |-> generate_report_summary(compute_overall_grade(ReportAverages(daily)),
                                         outcome),
     created_at |-> now]

\* The whole handler; without daily scores it returns an error and writes
\* nothing.
evaluation_generate_report(outcome) ==
    LET daily == get_daily_scores(daily_scores, 30, clock)
        recent == RecentTxns(clock)
        sells == SelectSeqOf(recent, {t \in Range(recent) : t.action = "sell"})
    IN  /\ IF daily = << >>
           THEN /\ UNCHANGED monthly_reports
                /\ lastOp' = "report_none"
           ELSE /\ monthly_reports' =
                       Append(monthly_reports,
                              ReportRow(daily, sells, get_mentor_triggers_raw(30, clock),
                                        outcome, clock))
                /\ lastOp' = "report_" \o outcome
        /\ UNCHANGED <<clock, factVars, daily_scores, badges, challenges, procs>>

ReportGenerate ==
    \E outcome \in NarrativeOutcomes :
        /\ Len(monthly_reports) < MaxReports
        /\ evaluation_generate_report(outcome)

ReportScheduler == daily_score_scheduler(MaxReportDay)

ReportMentor ==
    \E pattern_type \in AlertPatterns :
        /\ Len(mentor_triggers) < MaxTriggers
        /\ mentor_analyze(pattern_type)

NextReport == scheduler_first_run \/ ReportScheduler \/ ReportMentor \/ ReportGenerate

SpecReport == InitAgg /\ [][NextReport]_vars

\* The positive scores of one key in the history of the last 30 days.
HistoryValues(key) ==
    Positive([j \in DOMAIN EvaluatedHistory |-> EvaluatedHistory[j][key]])

\* avg (in tenths) is the mean of vals rounded to one decimal, or 0 without vals.
IsRoundedMean(avg, vals) ==
    IF vals = << >> THEN avg = 0
    ELSE 2 * Abs(avg * Len(vals) - SeqSum(vals)) <= Len(vals)

\* C22: a monthly report generated while the narrative generator is
\* unavailable or fails is still persisted; its five averages are the rounded
\* means of the positive daily scores of the last 30 days and its grade is the
\* grade of those averages, as with a generated narrative; its narrative is
\* the templated summary that cites only the grade.
C22_ReportWithoutNarrative ==
    [][(/\ lastOp' \in {"report_unavailable", "report_failed", "report_generated"}
        /\ ~UNCHANGED <<lastOp, monthly_reports>>) =>
          /\ Len(monthly_reports') = Len(monthly_reports) + 1
          /\ LET row == monthly_reports'[Len(monthly_reports')]
             IN  /\ IsRoundedMean(row.risk, HistoryValues("risk_score"))
                 /\ IsRoundedMean(row.discipline, HistoryValues("discipline_score"))
                 /\ IsRoundedMean(row.strategy, HistoryValues("strategy_score"))
                 /\ IsRoundedMean(row.psychology, HistoryValues("psychology_score"))
                 /\ IsRoundedMean(row.consistency, HistoryValues("consistency_score"))
                 /\ row.grade = GradeOf(Rat(row.risk + row.discipline + row.strategy
                                              + row.psychology + row.consistency, 50))
                 /\ lastOp' \in {"report_unavailable", "report_failed"} =>
                        row.summary = [kind |-> "template", grade |-> row.grade]]_vars

\* The call of the generator failed and the report is on record with the
\* template, over a history of several days whose psychology scores differ.
C22_Witness ==
    /\ lastOp = "report_failed"
    /\ monthly_reports # << >>
    /\ monthly_reports[Len(monthly_reports)].summary.kind = "template"
    /\ Len(EvaluatedHistory) >= 2
    /\ \E i, j \in DOMAIN EvaluatedHistory :
          EvaluatedHistory[i].psychology_score # EvaluatedHistory[j].psychology_score
    /\ monthly_reports[Len(monthly_reports)].created_at = clock

(***************************************************************************)
(* SpecDirty: an account whose transactions table holds rows with a        *)
(* timestamp that cannot be parsed.  add_transaction writes isoformat()    *)
(* only; the column is TEXT NOT NULL with no format constraint, so such a  *)
(* row is content the database already holds when the server starts.       *)
(***************************************************************************)
MaxDirtyTx == 2
MaxDirtyDay == 2

\* What a timestamp column of the stored history may hold: the instant of the
\* trade or one of the two unparseable texts.
DirtyStamps == {0} \cup UnparseableTimestamps

DirtyRequests ==
    {[symbol |-> a.symbol, type |-> a.type, action |-> action,
      quantity |-> 1, price |-> price] :
        a \in MentorAssets, action \in TradeActions, price \in Prices}

\* The accounts that up to MaxDirtyTx accepted trades leave.
DirtyStores ==
    LET one == {TradeAlone(DefaultStore, r, 0) : r \in DirtyRequests}
    IN  {st \in one \cup {TradeAlone(s, r, 0) : s \in one, r \in DirtyRequests} :
            Len(st.transactions) \in 1..MaxDirtyTx}

\* The place of a timestamp in the order of the TEXT column.
StringRank(ts) ==
    IF ts = EmptyTimestamp THEN 0 - 1
    ELSE IF ts = TextTimestamp THEN Days(MaxDirtyDay + 31)
    ELSE ts

Restamp(txs, stamps) ==
    [i \in DOMAIN txs |-> [txs[i] EXCEPT !.timestamp = stamps[i]]]

\* get_transactions reads ORDER BY timestamp DESC: the stored sequence is in
\* the order of the column.
InitDirty ==
    /\ clock = 0
    /\ \E st \in DirtyStores :
          \E stamps \in [DOMAIN st.transactions -> DirtyStamps] :
              /\ \A i, j \in DOMAIN stamps :
                    i < j => StringRank(stamps[i]) <= StringRank(stamps[j])
              /\ balance = st.balance
              /\ holdings = st.holdings
              /\ transactions = Restamp(st.transactions, stamps)
    /\ checklists = << >>
    /\ mentor_triggers = << >>
    /\ sentiment_cache = {}
    /\ daily_scores = {}
    /\ badges = {}
    /\ monthly_reports = << >>
    /\ challenges = {}
    /\ procs = <<"start">>
    /\ lastOp = "init"

DirtyScheduler == daily_score_scheduler(MaxDirtyDay)

DirtyCompute == evaluation_compute

\* POST /api/mentor/analyze; the scheduler loop keeps its position.
DirtyAnalyze ==
    /\ Len(mentor_triggers) < MaxTriggers
    /\ mentor_triggers' =
          SaveTriggers(mentor_triggers, AnalyzeResponse(clock).alerts, 1, clock)
    /\ lastOp' = "facts"
    /\ UNCHANGED <<clock, balance, holdings, transactions, checklists,
                   sentiment_cache, scoreVars, challenges, procs>>

NextDirty == scheduler_first_run \/ DirtyScheduler \/ DirtyCompute \/ DirtyAnalyze

SpecDirty == InitDirty /\ [][NextDirty]_vars

\* The transactions whose timestamp parses.
ParseableTxns(txs) ==
    SelectSeqOf(txs, {t \in Range(txs) : Parseable(t.timestamp)})

\* The rows of the 30 days before now among those that parse.
ParsedWindow(now) ==
    {i \in DOMAIN transactions :
        /\ Parseable(transactions[i].timestamp)
        /\ transactions[i].timestamp >= now - Days(30)}

\* No detector reads a row that does not parse: the alerts over the stored
\* history are the alerts over its rows that parse.
DetectorsSkipUnparseable ==
    run_all_checks(get_transactions, get_holdings, balance, clock)
        = run_all_checks(ParseableTxns(get_transactions), get_holdings, balance, clock)

====
